---- MODULE Spec2Model ----
(***************************************************************************)
(* A model of the workflow engine of backend/src/workflow_engine.rs:       *)
(* the graph validator (validate_workflow, has_cycle), the scheduler       *)
(* (topological_sort), the step processors and the step executor           *)
(* (execute_step), and the coordinator (execute_workflow, cancel_workflow, *)
(* get_workflow_status) over the registry of workflow executions.          *)
(*                                                                         *)
(* SpecGraph applies validate_workflow and topological_sort to every step  *)
(* list of the bounds.  Spec runs one execute_workflow call on a new       *)
(* engine, step by step, with cancel_workflow calls at any point.          *)
(* SpecStatus does the same for shorter step lists, with                   *)
(* get_workflow_status calls at any point; SpecTimed, for the same lists,  *)
(* lets a processor run for longer than its step's timeout_ms.             *)
(* SpecScenario runs the workflows of one step of the scenarios: a sum of  *)
(* an array, the step of test_simple_workflow, a conditional.              *)
(* SpecLock runs two execute_workflow calls next to a get_workflow_status  *)
(* or cancel_workflow call at the grain of the registry's Mutex, and       *)
(* SpecLockFair does so for smaller step lists under fair scheduling.      *)
(* The /execute-workflow handler of backend/src/main.rs is the operator    *)
(* execute_workflow_handler.                                               *)
(***************************************************************************)
EXTENDS Integers, Sequences, FiniteSets, TLC

\* ------------------------------------------------------------------ bounds

\* Longest step list of the graph specification.
MaxSteps == 3
\* Most dependency entries of one step list, all its steps together.
MaxEdges == 3

\* Most dependency entries of one step list that is submitted to the engine.
MaxEngineEdges == 2
\* Most cancel_workflow calls of one behaviour.
MaxCancels == 1
\* Most get_workflow_status calls of one behaviour.
MaxStatusCalls == 2
\* Longest step list, and most dependency entries of one step list, of the
\* status and the timed specifications.
MaxStatusSteps == 2
MaxStatusEdges == 1
\* Longest array payload, largest array item, and largest payload and
\* threshold of a conditional step, of the scenario specification.
MaxArrayLen == 3
MaxItem == 2
MaxInt == 5
\* The fair specification: the steps and dependency entries of the first
\* step list, and the times the second list repeats its step.
MaxFairSteps == 1
MaxFairEdges == 1
MaxFairRepeats == 2

\* ------------------------------------------------------------- identifiers

\* Step ids are opaque strings that the code only compares for equality and
\* hashes; the hash order is modelled as a free choice (see topological_sort),
\* so a step list is taken up to renaming: its i-th new id is IdNames[i].
IdNames == <<"a", "b", "c", "d", "e">>

\* An id that no step of any list carries: a dependency on a missing step.
GhostId == "x"

IdsUpTo(n) == {IdNames[i] : i \in 1..n}

\* ------------------------------------------------------------------ steps

\* WorkflowStep.  Only id and dependencies are read by the validator and the
\* scheduler; the other fields are read by execute_step.
WorkflowStep(id, operation, dependencies, data, parameters, timeout_ms, retry_count) ==
    [id |-> id, operation |-> operation, dependencies |-> dependencies,
     data |-> data, parameters |-> parameters,
     timeout_ms |-> timeout_ms, retry_count |-> retry_count]

\* steps.iter().map(|s| s.id.clone()).collect::<HashSet>()
step_ids(steps) == {steps[i].id : i \in 1..Len(steps)}

MinOf(S) == CHOOSE m \in S : \A n \in S : m <= n

\* steps.iter().find(|s| s.id == step_id): the index of the first step with
\* that id, 0 for None.
find_step(steps, step_id) ==
    LET hits == {i \in 1..Len(steps) : steps[i].id = step_id}
    IN IF hits = {} THEN 0 ELSE MinOf(hits)

\* ------------------------------------------------------------- validator

CycleState(r, visited, rec_stack) ==
    [r |-> r, visited |-> visited, rec_stack |-> rec_stack]

RECURSIVE has_cycle(_, _, _, _)
RECURSIVE has_cycle_deps(_, _, _, _, _)

\* Mutant of has_cycle: the step stays on rec_stack when the call returns.
has_cycle_keeps_stack(step_id, steps, visited, rec_stack) ==
    IF step_id \in rec_stack THEN CycleState("true", visited, rec_stack)
    ELSE IF step_id \in visited THEN CycleState("false", visited, rec_stack)
    ELSE LET v1 == visited \cup {step_id}
             r1 == rec_stack \cup {step_id}
             k == find_step(steps, step_id)
         IN IF k = 0 THEN CycleState("panic", v1, r1)
            ELSE has_cycle_deps(steps[k].dependencies, 1, steps, v1, r1)

\* has_cycle: r is "true", "false", or "panic" when the unwrap() of the step
\* lookup meets None (the id is the id of no step).  The two sets are passed
\* by &mut, so the sets at return are part of the result.
has_cycle(step_id, steps, visited, rec_stack) ==
    IF step_id \in rec_stack THEN CycleState("true", visited, rec_stack)
    ELSE IF step_id \in visited THEN CycleState("false", visited, rec_stack)
    ELSE LET v1 == visited \cup {step_id}
             r1 == rec_stack \cup {step_id}
             k == find_step(steps, step_id)
         IN IF k = 0 THEN CycleState("panic", v1, r1)
            ELSE LET d == has_cycle_deps(steps[k].dependencies, 1, steps, v1, r1)
                 IN IF d.r = "false"
                    THEN CycleState("false", d.visited, d.rec_stack \ {step_id})
                    ELSE d

\* The loop over step.dependencies inside has_cycle, from its i-th entry on.
has_cycle_deps(deps, i, steps, visited, rec_stack) ==
    IF i > Len(deps) THEN CycleState("false", visited, rec_stack)
    ELSE LET c == has_cycle(deps[i], steps, visited, rec_stack)
         IN IF c.r # "false" THEN c
            ELSE has_cycle_deps(deps, i + 1, steps, c.visited, c.rec_stack)

RECURSIVE check_cycles(_, _, _, _)
\* The first loop of validate_workflow, from the i-th step on: "true" when
\* some has_cycle call returns true, "panic" when one panics first.
check_cycles(steps, i, visited, rec_stack) ==
    IF i > Len(steps) THEN "false"
    ELSE LET c == has_cycle(steps[i].id, steps, visited, rec_stack)
         IN IF c.r # "false" THEN c.r
            ELSE check_cycles(steps, i + 1, c.visited, c.rec_stack)

\* The (step index, dependency index) pairs whose dependency names no step.
missing_deps(steps) ==
    UNION {{<<i, j>> : j \in {k \in 1..Len(steps[i].dependencies) :
                                 steps[i].dependencies[k] \notin step_ids(steps)}} :
           i \in 1..Len(steps)}

\* The first such pair in the order of the two nested loops.
first_missing(steps) ==
    CHOOSE p \in missing_deps(steps) :
        \A q \in missing_deps(steps) :
            p[1] < q[1] \/ (p[1] = q[1] /\ p[2] <= q[2])

ValidateResult(kind, step, dep) == [kind |-> kind, step |-> step, dep |-> dep]

\* validate_workflow.  kind is "Ok", or the error returned:
\*   "EmptyWorkflow"          Workflow must have at least one step
\*   "CircularDependency"     Circular dependency detected in workflow
\*   "NonExistentDependency"  Step '{step}' depends on non-existent step '{dep}'
\* or "Panic" when has_cycle panics: no value is returned at all.
validate_workflow(steps) ==
    IF Len(steps) = 0 THEN ValidateResult("EmptyWorkflow", "", "")
    ELSE LET c == check_cycles(steps, 1, {}, {})
         IN IF c = "panic" THEN ValidateResult("Panic", "", "")
            ELSE IF c = "true" THEN ValidateResult("CircularDependency", "", "")
            ELSE IF missing_deps(steps) # {}
                 THEN LET p == first_missing(steps)
                      IN ValidateResult("NonExistentDependency", steps[p[1]].id,
                                        steps[p[1]].dependencies[p[2]])
                 ELSE ValidateResult("Ok", "", "")

\* ------------------------------------------------------------- scheduler

RECURSIVE build_graph(_, _, _, _)
\* The two nested loops that fill graph and in_degree, from dependency j of
\* step i on.  acc = [in_degree, graph].
build_graph(steps, i, j, acc) ==
    IF i > Len(steps) THEN acc
    ELSE IF j > Len(steps[i].dependencies) THEN build_graph(steps, i + 1, 1, acc)
    ELSE LET dep == steps[i].dependencies[j]
             id == steps[i].id
             g1 == IF dep \in DOMAIN acc.graph
                   THEN [acc.graph EXCEPT ![dep] = Append(@, id)]
                   ELSE acc.graph
             d1 == [acc.in_degree EXCEPT ![id] = @ + 1]
         IN build_graph(steps, i, j + 1, [in_degree |-> d1, graph |-> g1])

RECURSIVE relax(_, _, _, _)
\* The loop over graph[current], from its k-th neighbor on.  A decrement of a
\* zero usize is an arithmetic overflow: the flag records it.
relax(adj_list, k, in_degree, queue) ==
    IF k > Len(adj_list)
    THEN [in_degree |-> in_degree, queue |-> queue, overflow |-> FALSE]
    ELSE LET neighbor == adj_list[k]
             degree == in_degree[neighbor] - 1
         IN IF degree < 0
            THEN [in_degree |-> in_degree, queue |-> queue, overflow |-> TRUE]
            ELSE relax(adj_list, k + 1, [in_degree EXCEPT ![neighbor] = degree],
                       IF degree = 0 THEN Append(queue, neighbor) ELSE queue)

RECURSIVE kahn(_, _, _, _)
\* while let Some(current) = queue.pop_front()
kahn(queue, result, in_degree, graph) ==
    IF queue = <<>> THEN [result |-> result, overflow |-> FALSE]
    ELSE LET current == Head(queue)
             u == relax(graph[current], 1, in_degree, Tail(queue))
         IN IF u.overflow THEN [result |-> result, overflow |-> TRUE]
            ELSE kahn(u.queue, Append(result, current), u.in_degree, graph)

\* The orders in which a HashMap iteration may meet the keys in S.
IterOrders(S) ==
    {s \in [1..Cardinality(S) -> S] : \A i, j \in DOMAIN s : s[i] = s[j] => i = j}

\* in_degree and graph as the two "Initialize" and "Build graph" loops leave
\* them.
built_graph(steps) ==
    build_graph(steps, 1, 1, [in_degree |-> [id \in step_ids(steps) |-> 0],
                              graph |-> [id \in step_ids(steps) |-> <<>>]])

\* Mutant of ready_ids: the queue is seeded with every key, the test of
\* degree == 0 forgotten.
ready_ids_unchecked(steps) == step_ids(steps)

\* The keys that `for (step_id, &degree) in &in_degree` pushes on the queue.
ready_ids(steps) ==
    {id \in step_ids(steps) : built_graph(steps).in_degree[id] = 0}

SortResult(kind, order) == [kind |-> kind, order |-> order]

\* Mutant of topological_sort: the steps are scheduled in the order of their
\* declaration.
topological_sort_declared(steps, ready_order) ==
    SortResult("Ok", [i \in 1..Len(steps) |-> steps[i].id])

\* topological_sort.  ready_order is the order in which the iteration over
\* the HashMap in_degree meets the keys of degree 0: std's HashMap is seeded
\* at random, so the caller draws it from IterOrders(ready_ids(steps)).  kind
\* is "Ok" with the order, "CircularDependency" (the length check), or
\* "Panic" (the overflow).
topological_sort(steps, ready_order) ==
    LET built == built_graph(steps)
        k == kahn(ready_order, <<>>, built.in_degree, built.graph)
    IN IF k.overflow THEN SortResult("Panic", <<>>)
       ELSE IF Len(k.result) # Len(steps) THEN SortResult("CircularDependency", <<>>)
       ELSE SortResult("Ok", k.result)

\* ------------------------------------------------------------- JSON values

\* serde_json::Value, tagged; every number of the model is an integer, which
\* as_f64 converts exactly.  Frac is the f64 quotient num/den of `average`.
Null == [t |-> "null"]
Bool(b) == [t |-> "bool", b |-> b]
Num(n) == [t |-> "num", n |-> n]
Frac(num, den) == [t |-> "frac", num |-> num, den |-> den]
Str(s) == [t |-> "str", s |-> s]
Arr(items) == [t |-> "arr", items |-> items]
Obj(fields) == [t |-> "obj", fields |-> fields]

\* Option::None, for Option<Value> and for the Option results of the accessors.
NoneV == [t |-> "none"]

\* Value::get(key): Some(field) on an object that has the key, else None;
\* params.and_then(|p| p.get(key)) is the same on an Option<&Value>.
get(v, key) ==
    IF v.t = "obj" /\ key \in DOMAIN v.fields THEN v.fields[key] ELSE NoneV

\* .and_then(|p| p.as_str()): the value if it is a string, else None.
as_str(v) == IF v.t = "str" THEN v ELSE NoneV

\* .as_f64().unwrap_or(0.0)
as_f64_or_0(v) == IF v.t = "num" THEN v.n ELSE 0

\* Result<Value>: Ok(value) or Err(error).  An error message is the sequence
\* of the pieces that format!/anyhow! joins.
Ok(value) == [ok |-> TRUE, value |-> value, error |-> <<>>]
Err(error) == [ok |-> FALSE, value |-> Null, error |-> error]

\* Mutant of sum_f64: the items are counted.
sum_f64_counted(items) == Len(items)

RECURSIVE sum_f64(_)
\* data_array.iter().filter_map(|v| v.as_f64()).sum()
sum_f64(items) ==
    IF items = <<>> THEN 0
    ELSE (IF Head(items).t = "num" THEN Head(items).n ELSE 0) + sum_f64(Tail(items))

RECURSIVE insert_sorted(_, _, _)
\* v inserted after every element that does not compare greater than it: the
\* insertion step of a stable sort under the comparator of "sort".
insert_sorted(sorted, v, desc) ==
    IF sorted = <<>> THEN <<v>>
    ELSE LET h == as_f64_or_0(Head(sorted))
             x == as_f64_or_0(v)
             v_first == IF desc THEN x > h ELSE x < h
         IN IF v_first THEN <<v>> \o sorted
            ELSE <<Head(sorted)>> \o insert_sorted(Tail(sorted), v, desc)

RECURSIVE sort_by(_, _)
\* sorted_data.sort_by(..): slice::sort_by is stable.
sort_by(items, desc) ==
    IF items = <<>> THEN <<>>
    ELSE insert_sorted(sort_by(SubSeq(items, 1, Len(items) - 1), desc),
                       items[Len(items)], desc)

\* --------------------------------------------------------- step processors

\* The "data_transform" closure.
data_transform(data, params) ==
    LET operation == as_str(get(params, "operation"))
    IN IF operation = NoneV
       THEN Err(<<"Data transform requires 'operation' parameter">>)
       ELSE IF operation.s = "filter" THEN
            LET threshold == as_f64_or_0(get(params, "threshold"))
            IN IF data.t # "arr" THEN Err(<<"Data must be an array">>)
               ELSE LET filtered == SelectSeq(data.items,
                                              LAMBDA v : as_f64_or_0(v) > threshold)
                    IN Ok(Obj([filtered_data |-> Arr(filtered),
                               original_count |-> Num(Len(data.items)),
                               filtered_count |-> Num(Len(filtered)),
                               threshold |-> Num(threshold)]))
       ELSE IF operation.s = "sort" THEN
            LET o == as_str(get(params, "order"))
                order == IF o = NoneV THEN "asc" ELSE o.s
            IN IF data.t # "arr" THEN Err(<<"Data must be an array">>)
               ELSE LET sorted_data == sort_by(data.items, order = "desc")
                    IN Ok(Obj([sorted_data |-> Arr(sorted_data),
                               order |-> Str(order),
                               count |-> Num(Len(sorted_data))]))
       ELSE IF operation.s = "aggregate" THEN
            LET function == as_str(get(params, "function"))
            IN IF function = NoneV
               THEN Err(<<"Aggregate requires 'function' parameter">>)
               ELSE IF data.t # "arr" THEN Err(<<"Data must be an array">>)
               ELSE IF function.s = "sum"
                    THEN Ok(Obj([sum |-> Num(sum_f64(data.items))]))
               ELSE IF function.s = "average"
                    THEN LET values == SelectSeq(data.items, LAMBDA v : v.t = "num")
                             avg == IF values = <<>> THEN Num(0)
                                    ELSE Frac(sum_f64(values), Len(values))
                         IN Ok(Obj([average |-> avg, count |-> Num(Len(values))]))
               ELSE IF function.s = "count"
                    THEN Ok(Obj([count |-> Num(Len(data.items))]))
               ELSE Err(<<"Unknown aggregate function: ", function.s>>)
       ELSE Err(<<"Unknown data transform operation: ", operation.s>>)

\* The "file_operation" closure (simulated: no file is touched).
file_operation(data, params) ==
    LET operation == as_str(get(params, "operation"))
        file_path == as_str(get(params, "file_path"))
    IN IF operation = NoneV
       THEN Err(<<"File operation requires 'operation' parameter">>)
       ELSE IF operation.s = "read_csv" THEN
            IF file_path = NoneV
            THEN Err(<<"File operation requires 'file_path' parameter">>)
            ELSE Ok(Obj([operation |-> Str("read_csv"), file_path |-> file_path,
                         status |-> Str("success"),
                         message |-> Str("CSV file read successfully (simulated)")]))
       ELSE IF operation.s = "write_json" THEN
            IF file_path = NoneV
            THEN Err(<<"File operation requires 'file_path' parameter">>)
            ELSE Ok(Obj([operation |-> Str("write_json"), file_path |-> file_path,
                         status |-> Str("success"),
                         message |-> Str("JSON file written successfully (simulated)")]))
       ELSE Err(<<"Unknown file operation: ", operation.s>>)

\* Mutant of conditional: greater_than is true of equal numbers too.
conditional_or_equal(data, params) ==
    LET condition == as_str(get(params, "condition"))
        value == as_f64_or_0(data)
        threshold == as_f64_or_0(get(params, "threshold"))
    IN IF condition = NoneV
       THEN Err(<<"Conditional requires 'condition' parameter">>)
       ELSE IF condition.s \notin {"greater_than", "less_than", "equals", "not_equals"}
       THEN Err(<<"Unknown condition: ", condition.s>>)
       ELSE LET result == CASE condition.s = "greater_than" -> value >= threshold
                            [] condition.s = "less_than" -> value < threshold
                            [] condition.s = "equals" -> value = threshold
                            [] condition.s = "not_equals" -> value # threshold
            IN Ok(Obj([condition |-> condition, value |-> Num(value),
                       threshold |-> Num(threshold), result |-> Bool(result)]))

\* The "conditional" closure.  On integers |value - threshold| < f64::EPSILON
\* is value = threshold.
conditional(data, params) ==
    LET condition == as_str(get(params, "condition"))
        value == as_f64_or_0(data)
        threshold == as_f64_or_0(get(params, "threshold"))
    IN IF condition = NoneV
       THEN Err(<<"Conditional requires 'condition' parameter">>)
       ELSE IF condition.s \notin {"greater_than", "less_than", "equals", "not_equals"}
       THEN Err(<<"Unknown condition: ", condition.s>>)
       ELSE LET result == CASE condition.s = "greater_than" -> value > threshold
                            [] condition.s = "less_than" -> value < threshold
                            [] condition.s = "equals" -> value = threshold
                            [] condition.s = "not_equals" -> value # threshold
            IN Ok(Obj([condition |-> condition, value |-> Num(value),
                       threshold |-> Num(threshold), result |-> Bool(result)]))

\* The "delay" closure: it returns at once.
delay(data, params) ==
    LET d == get(params, "duration_ms")
        duration_ms == IF d.t = "num" /\ d.n >= 0 THEN d.n ELSE 1000
    IN Ok(Obj([operation |-> Str("delay"), duration_ms |-> Num(duration_ms),
               status |-> Str("completed")]))

\* Mutant of register_step_processors: the delay processor is not registered.
register_step_processors_no_delay == {"data_transform", "file_operation", "conditional"}

\* The keys of step_processors after register_step_processors.
register_step_processors == {"data_transform", "file_operation", "conditional", "delay"}

\* WorkflowEngine.step_processors: the keys of the map (the closure under a
\* key is the operator processor below).
VARIABLE step_processors

\* get_available_operations(): the keys of step_processors.
get_available_operations == step_processors

\* processor(&input_data, step.parameters.as_ref()) for a registered operation.
processor(operation, data, params) ==
    CASE operation = "data_transform" -> data_transform(data, params)
      [] operation = "file_operation" -> file_operation(data, params)
      [] operation = "conditional" -> conditional(data, params)
      [] operation = "delay" -> delay(data, params)

\* ---------------------------------------------------------- step executor

\* Mutant of input_data: a dependency without a result contributes a null.
input_data_placeholder(step, previous_results) ==
    IF step.dependencies = <<>> THEN step.data
    ELSE Arr([i \in 1..Len(step.dependencies) |->
                IF step.dependencies[i] \in DOMAIN previous_results
                THEN previous_results[step.dependencies[i]]
                ELSE Null])

\* The input of execute_step: the step's own data when it has no
\* dependencies, else the array of the results of its dependencies, in the
\* order of step.dependencies, those without a result left out.
input_data(step, previous_results) ==
    IF step.dependencies = <<>> THEN step.data
    ELSE LET present == SelectSeq(step.dependencies,
                                  LAMBDA dep : dep \in DOMAIN previous_results)
         IN Arr([i \in 1..Len(present) |-> previous_results[present[i]]])

\* execute_step.
execute_step(step, previous_results) ==
    IF step.operation \notin step_processors
    THEN Err(<<"Unknown step operation: ", step.operation>>)
    ELSE processor(step.operation, input_data(step, previous_results), step.parameters)

\* ------------------------------------------------------------------ state

VARIABLES
    gsteps,     \* graph specification: the step list under test
    gvalid,     \* graph specification: what validate_workflow(gsteps) gave
    gsort,      \* graph specification: what topological_sort(gsteps) gave
    workflows,  \* WorkflowEngine.workflows: workflow id -> WorkflowExecution
    task,       \* the calls on the engine: each one's locals and position
    issued,     \* the number of workflow ids Uuid::new_v4 has handed out
    clock,      \* the latest reading of chrono::Utc::now()
    cancels,    \* the number of cancel_workflow calls so far
    last_cancel, \* the latest cancel_workflow call: its argument, its return
                 \* value, and the record under that id before and after it
    status_calls, \* the get_workflow_status calls so far: each one's argument
                  \* and return value, and the number of ids issued by then
    lock        \* the holder of the registry's Mutex: the number of the call
                \* in task whose guard is alive, 0 when it is unlocked

gvars == <<gsteps, gvalid, gsort>>
evars == <<workflows, task, issued, clock, cancels, last_cancel, status_calls,
          step_processors, lock>>
vars == <<gsteps, gvalid, gsort, workflows, task, issued, clock, cancels, last_cancel,
          status_calls, step_processors, lock>>

\* ------------------------------------------------------------ step lists

IdIndex(id) == CHOOSE k \in 1..Len(IdNames) : IdNames[k] = id

\* Id sequences up to renaming: each id is one already used or the next name.
IdSeqs(n) ==
    {s \in [1..n -> IdsUpTo(n)] :
        \A i \in 1..n : \A k \in 1..(IdIndex(s[i]) - 1) :
            \E j \in 1..(i - 1) : s[j] = IdNames[k]}

RECURSIVE SumTo(_, _)
\* f[1] + ... + f[n]
SumTo(f, n) == IF n = 0 THEN 0 ELSE f[n] + SumTo(f, n - 1)

\* The lengths of the dependency lists of n steps: at most max_edges entries
\* in all.
DepLengths(n, max_edges) ==
    {lens \in [1..n -> 0..max_edges] : SumTo(lens, n) <= max_edges}

\* The entries of a dependency list: the ids a step list can carry and the
\* ghost id.
DepIds == IdsUpTo(MaxSteps) \cup {GhostId}

\* The dependency lists of n steps with the lengths lens, cut from the
\* sequence flat of all their entries.
CutDeps(flat, lens, n) ==
    [i \in 1..n |-> SubSeq(flat, SumTo(lens, i - 1) + 1, SumTo(lens, i))]

\* A step of which only the graph matters: the fields execute_step reads are
\* fixed.
GraphStep(id, deps) == WorkflowStep(id, "delay", deps, Null, NoneV, NoneV, NoneV)

\* ------------------------------------------------------------ coordinator

\* The ids Uuid::new_v4 hands out, in the order of the calls: version 4 uuids
\* are 122 random bits, and the model takes two calls never to give the same.
UuidNames == <<"w1", "w2", "w3">>

\* A workflow id that Uuid::new_v4 never handed out.
UnknownWorkflowId == "w0"

\* HashMap::new() and HashMap::insert
EmptyMap == [k \in {} |-> Null]
insert(map, key, value) ==
    [k \in DOMAIN map \cup {key} |-> IF k = key THEN value ELSE map[k]]

\* chrono::Utc::now(): not before the latest reading.
Now == {clock, clock + 1}

\* The WorkflowExecution that execute_workflow creates once the step list is
\* validated (the name, which nothing reads, is left out).
new_execution(workflow_id, steps, now) ==
    [id |-> workflow_id, steps |-> steps, status |-> "Running",
     current_step |-> NoneV, results |-> EmptyMap, errors |-> EmptyMap,
     start_time |-> now, end_time |-> NoneV, total_duration_ms |-> NoneV]

\* Mutant of final_status: the run is Completed whatever the errors map holds.
final_status_completed(execution) == "Completed"

\* "Update final status": the status, the end time and the duration that
\* execute_workflow sets after execute_workflow_steps returned.
final_status(execution) ==
    IF DOMAIN execution.errors = {} THEN "Completed" ELSE "Failed"

\* Mutant of finalized: the end time is not set.
finalized_no_end_time(execution, now) ==
    [execution EXCEPT !.status = final_status(execution),
                      !.total_duration_ms = Num(now - execution.start_time)]

finalized(execution, now) ==
    [execution EXCEPT !.status = final_status(execution),
                      !.end_time = Num(now),
                      !.total_duration_ms = Num(now - execution.start_time)]

\* The WorkflowResult built from the finalized execution.
workflow_result(execution) ==
    [workflow_id |-> execution.id, status |-> execution.status,
     results |-> execution.results, errors |-> execution.errors,
     execution_time_ms |-> execution.total_duration_ms.n,
     step_count |-> Len(execution.steps),
     successful_steps |-> Cardinality(DOMAIN execution.results),
     failed_steps |-> Cardinality(DOMAIN execution.errors)]

\* What execute_workflow returned: nothing yet, Err(error) or
\* Ok((workflow_id, result)).
NoReturn == [t |-> "none"]
ReturnErr(error) == [t |-> "err", error |-> error]
ReturnOk(workflow_id, result) ==
    [t |-> "ok", workflow_id |-> workflow_id, result |-> result]

\* One execute_workflow call.  pc is its position:
\*   "idle"      not called yet; steps is the argument it will be called with
\*   "execute"   the Running record is stored; execute_workflow_steps is next
\*   "run"       in the loop of execute_workflow_steps, before step number next
\*               of execution_order
\*   "finalize"  execute_workflow_steps returned
\*   "returned"  execute_workflow returned ret
\*   "panicked"  execute_workflow panicked
\* execution is the local WorkflowExecution; log has one entry for each
\* execute_step call: its arguments, whether it reached the processor, the
\* input it passed, and the milliseconds the call took.
idle_task(steps) ==
    [pc |-> "idle", steps |-> steps, workflow_id |-> "", execution |-> NoneV,
     execution_order |-> <<>>, next |-> 0, log |-> <<>>, ret |-> NoReturn]

\* The execution after the loop body of execute_workflow_steps for step_id.
after_step(execution, step_id) ==
    LET step == execution.steps[find_step(execution.steps, step_id)]
        r == execute_step(step, execution.results)
    IN [execution EXCEPT
          !.current_step = Str(step_id),
          !.results = IF r.ok THEN insert(@, step_id, r.value) ELSE @,
          !.errors = IF r.ok THEN @
                     ELSE insert(@, step_id, <<"Step execution failed: ">> \o r.error)]

\* The log entry of that execute_step call.
log_entry(execution, step_id) ==
    LET step == execution.steps[find_step(execution.steps, step_id)]
        invoked == step.operation \in step_processors
    IN [step |-> step, previous_results |-> execution.results,
        attempted_before |-> DOMAIN execution.results \cup DOMAIN execution.errors,
        invoked |-> invoked,
        input |-> IF invoked THEN input_data(step, execution.results) ELSE NoneV,
        elapsed_ms |-> 0]

NoCancel == [workflow_id |-> "", ret |-> "", before |-> NoneV, after |-> NoneV]

\* execute_workflow is called and validate_workflow panics.
ExecuteWorkflowPanics(t) ==
    /\ task[t].pc = "idle"
    /\ issued < Len(UuidNames)
    /\ validate_workflow(task[t].steps).kind = "Panic"
    /\ issued' = issued + 1
    /\ task' = [task EXCEPT ![t].pc = "panicked",
                            ![t].workflow_id = UuidNames[issued + 1]]
    /\ UNCHANGED <<workflows, clock, cancels, last_cancel, status_calls, step_processors, lock, gvars>>

\* execute_workflow is called and validate_workflow returns an error, which
\* the ? operator returns to the caller.
ExecuteWorkflowRejects(t) ==
    /\ task[t].pc = "idle"
    /\ issued < Len(UuidNames)
    /\ validate_workflow(task[t].steps).kind \notin {"Ok", "Panic"}
    /\ issued' = issued + 1
    /\ task' = [task EXCEPT ![t].pc = "returned",
                            ![t].workflow_id = UuidNames[issued + 1],
                            ![t].ret = ReturnErr(validate_workflow(task[t].steps))]
    /\ UNCHANGED <<workflows, clock, cancels, last_cancel, status_calls, step_processors, lock, gvars>>

\* execute_workflow is called, validate_workflow returns Ok, and the new
\* execution is stored under the registry lock.
ExecuteWorkflowStores(t) ==
    /\ task[t].pc = "idle"
    /\ issued < Len(UuidNames)
    /\ validate_workflow(task[t].steps).kind = "Ok"
    /\ \E now \in Now :
         LET workflow_id == UuidNames[issued + 1]
             execution == new_execution(workflow_id, task[t].steps, now)
         IN /\ clock' = now
            /\ workflows' = insert(workflows, workflow_id, execution)
            /\ task' = [task EXCEPT ![t].pc = "execute",
                                    ![t].workflow_id = workflow_id,
                                    ![t].execution = execution]
    /\ issued' = issued + 1
    /\ UNCHANGED <<cancels, last_cancel, status_calls, step_processors, lock, gvars>>

\* execute_workflow_steps is entered and topological_sort returns an order.
ExecuteWorkflowStepsSorts(t) ==
    /\ task[t].pc = "execute"
    /\ \E ready_order \in IterOrders(ready_ids(task[t].execution.steps)) :
         LET sorted == topological_sort(task[t].execution.steps, ready_order)
         IN /\ sorted.kind = "Ok"
            /\ task' = [task EXCEPT ![t].pc = IF sorted.order = <<>> THEN "finalize"
                                              ELSE "run",
                                    ![t].execution_order = sorted.order,
                                    ![t].next = 1]
    /\ UNCHANGED <<workflows, issued, clock, cancels, last_cancel, status_calls, step_processors, lock, gvars>>

\* execute_workflow_steps is entered and topological_sort returns an error:
\* the ? operator returns it, and execute_workflow drops it (let _result).
ExecuteWorkflowStepsFails(t) ==
    /\ task[t].pc = "execute"
    /\ \E ready_order \in IterOrders(ready_ids(task[t].execution.steps)) :
         topological_sort(task[t].execution.steps, ready_order).kind # "Ok"
    /\ task' = [task EXCEPT ![t].pc = "finalize"]
    /\ UNCHANGED <<workflows, issued, clock, cancels, last_cancel, status_calls, step_processors, lock, gvars>>

\* Mutant of ExecuteStep: the turn also stores the execution, with the
\* step's outcome, in the registry.
ExecuteStep_publishes(t) ==
    /\ task[t].pc = "run"
    /\ LET step_id == task[t].execution_order[task[t].next]
       IN /\ task' = [task EXCEPT
                        ![t].execution = after_step(@, step_id),
                        ![t].log = Append(@, log_entry(task[t].execution, step_id)),
                        ![t].next = @ + 1,
                        ![t].pc = IF task[t].next = Len(task[t].execution_order)
                                  THEN "finalize" ELSE "run"]
          /\ workflows' = insert(workflows, task[t].workflow_id,
                                 after_step(task[t].execution, step_id))
    /\ UNCHANGED <<issued, clock, cancels, last_cancel, status_calls, step_processors, lock, gvars>>

\* One turn of the loop of execute_workflow_steps.
ExecuteStep(t) ==
    /\ task[t].pc = "run"
    /\ LET step_id == task[t].execution_order[task[t].next]
       IN task' = [task EXCEPT
                     ![t].execution = after_step(@, step_id),
                     ![t].log = Append(@, log_entry(task[t].execution, step_id)),
                     ![t].next = @ + 1,
                     ![t].pc = IF task[t].next = Len(task[t].execution_order)
                               THEN "finalize" ELSE "run"]
    /\ UNCHANGED <<workflows, issued, clock, cancels, last_cancel, status_calls, step_processors, lock, gvars>>

\* One turn of the loop of execute_workflow_steps in which the processor of a
\* step with a timeout_ms runs for longer than that: nothing reads
\* timeout_ms, and the turn ends as any other.
ExecuteStepSlowly(t) ==
    /\ task[t].pc = "run"
    /\ LET step_id == task[t].execution_order[task[t].next]
           entry == log_entry(task[t].execution, step_id)
       IN /\ entry.invoked
          /\ entry.step.timeout_ms # NoneV
          /\ clock' = clock + entry.step.timeout_ms.n + 1
          /\ task' = [task EXCEPT
                        ![t].execution = after_step(@, step_id),
                        ![t].log = Append(@, [entry EXCEPT !.elapsed_ms =
                                                entry.step.timeout_ms.n + 1]),
                        ![t].next = @ + 1,
                        ![t].pc = IF task[t].next = Len(task[t].execution_order)
                                  THEN "finalize" ELSE "run"]
    /\ UNCHANGED <<workflows, issued, cancels, last_cancel, status_calls, step_processors, lock, gvars>>

\* Mutant of ExecuteWorkflowFinalizes: the error of a failed step is raised
\* to the caller of execute_workflow.
ExecuteWorkflowFinalizes_raises(t) ==
    /\ task[t].pc = "finalize"
    /\ \E now \in Now :
         LET execution == finalized(task[t].execution, now)
         IN /\ clock' = now
            /\ workflows' = insert(workflows, task[t].workflow_id, execution)
            /\ task' = [task EXCEPT
                          ![t].pc = "returned",
                          ![t].execution = execution,
                          ![t].ret = IF DOMAIN execution.errors = {}
                                     THEN ReturnOk(task[t].workflow_id,
                                                   workflow_result(execution))
                                     ELSE ReturnErr(ValidateResult("StepFailed", "", ""))]
    /\ UNCHANGED <<issued, cancels, last_cancel, status_calls, step_processors, lock, gvars>>

\* The rest of execute_workflow: the final status and times, the second
\* insert under the registry lock, and the return of the result.
ExecuteWorkflowFinalizes(t) ==
    /\ task[t].pc = "finalize"
    /\ \E now \in Now :
         LET execution == finalized(task[t].execution, now)
         IN /\ clock' = now
            /\ workflows' = insert(workflows, task[t].workflow_id, execution)
            /\ task' = [task EXCEPT
                          ![t].pc = "returned",
                          ![t].execution = execution,
                          ![t].ret = ReturnOk(task[t].workflow_id,
                                              workflow_result(execution))]
    /\ UNCHANGED <<issued, cancels, last_cancel, status_calls, step_processors, lock, gvars>>

\* Mutant of CancelWorkflowFound: the cancel also stops the run, which goes
\* straight to its finalization.
CancelWorkflowFound_preempts(workflow_id) ==
    /\ cancels < MaxCancels
    /\ workflow_id \in DOMAIN workflows
    /\ \E now \in Now :
         LET execution == [workflows[workflow_id] EXCEPT !.status = "Cancelled",
                                                         !.end_time = Num(now)]
         IN /\ clock' = now
            /\ workflows' = [workflows EXCEPT ![workflow_id] = execution]
            /\ last_cancel' = [workflow_id |-> workflow_id, ret |-> "Ok",
                               before |-> workflows[workflow_id],
                               after |-> execution]
    /\ cancels' = cancels + 1
    /\ task' = [t \in DOMAIN task |->
                  IF task[t].workflow_id = workflow_id /\ task[t].pc \in {"execute", "run"}
                  THEN [task[t] EXCEPT !.pc = "finalize"] ELSE task[t]]
    /\ UNCHANGED <<issued, status_calls, step_processors, lock, gvars>>

\* cancel_workflow(workflow_id) finds a record.
CancelWorkflowFound(workflow_id) ==
    /\ cancels < MaxCancels
    /\ workflow_id \in DOMAIN workflows
    /\ \E now \in Now :
         LET execution == [workflows[workflow_id] EXCEPT !.status = "Cancelled",
                                                         !.end_time = Num(now)]
         IN /\ clock' = now
            /\ workflows' = [workflows EXCEPT ![workflow_id] = execution]
            /\ last_cancel' = [workflow_id |-> workflow_id, ret |-> "Ok",
                               before |-> workflows[workflow_id],
                               after |-> execution]
    /\ cancels' = cancels + 1
    /\ UNCHANGED <<task, issued, status_calls, step_processors, lock, gvars>>

\* Mutant of CancelWorkflowNotFound: the missing id gets a Cancelled record
\* (an entry().or_insert in the place of get_mut).
CancelWorkflowNotFound_inserts(workflow_id) ==
    /\ cancels < MaxCancels
    /\ workflow_id \notin DOMAIN workflows
    /\ workflows' = insert(workflows, workflow_id,
                           [new_execution(workflow_id, <<>>, clock)
                              EXCEPT !.status = "Cancelled", !.end_time = Num(clock)])
    /\ last_cancel' = [workflow_id |-> workflow_id, ret |-> "NotFound",
                       before |-> NoneV, after |-> NoneV]
    /\ cancels' = cancels + 1
    /\ UNCHANGED <<task, issued, clock, status_calls, step_processors, lock, gvars>>

\* cancel_workflow(workflow_id) finds none: Err("Workflow {} not found").
CancelWorkflowNotFound(workflow_id) ==
    /\ cancels < MaxCancels
    /\ workflow_id \notin DOMAIN workflows
    /\ last_cancel' = [workflow_id |-> workflow_id, ret |-> "NotFound",
                       before |-> NoneV, after |-> NoneV]
    /\ cancels' = cancels + 1
    /\ UNCHANGED <<workflows, task, issued, clock, status_calls, step_processors, lock, gvars>>

\* What get_workflow_status(workflow_id) returns: workflows.get(id).cloned(),
\* the record under the id or None.
get_workflow_status(workflow_id) ==
    IF workflow_id \in DOMAIN workflows THEN workflows[workflow_id] ELSE NoneV

\* Mutant of GetWorkflowStatus: the record is taken out of the registry
\* (HashMap::remove in the place of get).
GetWorkflowStatus_removes(workflow_id) ==
    /\ Len(status_calls) < MaxStatusCalls
    /\ status_calls' = Append(status_calls,
                              [workflow_id |-> workflow_id,
                               ret |-> get_workflow_status(workflow_id),
                               issued |-> issued])
    /\ workflows' = [w \in DOMAIN workflows \ {workflow_id} |-> workflows[w]]
    /\ UNCHANGED <<task, issued, clock, cancels, last_cancel, step_processors, lock, gvars>>

\* get_workflow_status(workflow_id), under the registry lock.
GetWorkflowStatus(workflow_id) ==
    /\ Len(status_calls) < MaxStatusCalls
    /\ status_calls' = Append(status_calls,
                              [workflow_id |-> workflow_id,
                               ret |-> get_workflow_status(workflow_id),
                               issued |-> issued])
    /\ UNCHANGED <<workflows, task, issued, clock, cancels, last_cancel, step_processors, lock, gvars>>

\* The state of a new engine: WorkflowEngine::new().
EngineInit ==
    /\ workflows = EmptyMap
    /\ issued = 0
    /\ clock = 0
    /\ cancels = 0
    /\ last_cancel = NoCancel
    /\ status_calls = <<>>
    /\ step_processors = register_step_processors
    /\ lock = 0

\* ----------------------------------------------------- graph specification

NotValidated == ValidateResult("NotCalled", "", "")
NotSorted == SortResult("NotCalled", <<>>)

InitGraph ==
    /\ \E n \in 0..MaxSteps : \E ids \in IdSeqs(n) : \E lens \in DepLengths(n, MaxEdges) :
         \E flat \in [1..SumTo(lens, n) -> DepIds] :
           gsteps = [i \in 1..n |-> GraphStep(ids[i], CutDeps(flat, lens, n)[i])]
    /\ gvalid = NotValidated
    /\ gsort = NotSorted
    /\ EngineInit
    /\ task = <<>>

\* validate_workflow(gsteps) is called.
CallValidate ==
    /\ gvalid = NotValidated
    /\ gvalid' = validate_workflow(gsteps)
    /\ UNCHANGED <<gsteps, gsort, evars>>

\* topological_sort(gsteps) is called; the HashMap's order is free.
CallSort ==
    /\ gsort = NotSorted
    /\ \E ready_order \in IterOrders(ready_ids(gsteps)) :
           gsort' = topological_sort(gsteps, ready_order)
    /\ UNCHANGED <<gsteps, gvalid, evars>>

NextGraph == CallValidate \/ CallSort

SpecGraph == InitGraph /\ [][NextGraph]_vars

\* ---------------------------------------------------- engine specification

\* The operation, payload, parameters, timeout and retry budget of the steps
\* that are submitted: a count of an array, with a timeout; a sum whose own
\* payload is a number, with a retry budget (the processor fails on the
\* payload and succeeds on the array of dependency outputs, with an output
\* other than the count's); and an operation that is not registered, with a
\* retry budget.
Aggregate(function) ==
    Obj([operation |-> Str("aggregate"), function |-> Str(function)])

StepKinds ==
    {[operation |-> "data_transform", data |-> Arr(<<Num(1), Num(2), Num(3)>>),
      parameters |-> Aggregate("count"), timeout_ms |-> Num(1),
      retry_count |-> NoneV],
     [operation |-> "data_transform", data |-> Num(5),
      parameters |-> Aggregate("sum"), timeout_ms |-> NoneV,
      retry_count |-> Num(1)],
     [operation |-> "unregistered", data |-> Null,
      parameters |-> NoneV, timeout_ms |-> NoneV, retry_count |-> Num(1)]}

EngineStep(id, deps, kind) ==
    WorkflowStep(id, kind.operation, deps, kind.data, kind.parameters,
                 kind.timeout_ms, kind.retry_count)

\* One execute_workflow call on a new engine, with any step list of the bounds.
Init ==
    /\ gsteps = <<>>
    /\ gvalid = NotValidated
    /\ gsort = NotSorted
    /\ EngineInit
    /\ \E n \in 0..MaxSteps : \E ids \in IdSeqs(n) :
         \E lens \in DepLengths(n, MaxEngineEdges) :
           \E flat \in [1..SumTo(lens, n) -> DepIds] :
             \E kinds \in [1..n -> StepKinds] :
               task = <<idle_task([i \in 1..n |->
                          EngineStep(ids[i], CutDeps(flat, lens, n)[i], kinds[i])])>>

\* The workflow ids a caller may pass to cancel_workflow: the ids of the
\* execute_workflow calls of the behaviour, issued yet or not, and an id of
\* none.
CancelArguments ==
    {UnknownWorkflowId} \cup {UuidNames[i] : i \in 1..Len(task)}

Next ==
    \/ \E t \in DOMAIN task : ExecuteWorkflowPanics(t)
    \/ \E t \in DOMAIN task : ExecuteWorkflowRejects(t)
    \/ \E t \in DOMAIN task : ExecuteWorkflowStores(t)
    \/ \E t \in DOMAIN task : ExecuteWorkflowStepsSorts(t)
    \/ \E t \in DOMAIN task : ExecuteWorkflowStepsFails(t)
    \/ \E t \in DOMAIN task : ExecuteStep(t)
    \/ \E t \in DOMAIN task : ExecuteWorkflowFinalizes(t)
    \/ \E workflow_id \in CancelArguments : CancelWorkflowFound(workflow_id)
    \/ \E workflow_id \in CancelArguments : CancelWorkflowNotFound(workflow_id)

Spec == Init /\ [][Next]_vars

\* ---------------------------------------------------- status specification

\* One execute_workflow call on a new engine with a step list of the smaller
\* bounds, next to cancel_workflow and get_workflow_status calls.
InitStatus ==
    /\ gsteps = <<>>
    /\ gvalid = NotValidated
    /\ gsort = NotSorted
    /\ EngineInit
    /\ \E n \in 0..MaxStatusSteps : \E ids \in IdSeqs(n) :
         \E lens \in DepLengths(n, MaxStatusEdges) :
           \E flat \in [1..SumTo(lens, n) -> IdsUpTo(MaxStatusSteps) \cup {GhostId}] :
             \E kinds \in [1..n -> StepKinds] :
               task = <<idle_task([i \in 1..n |->
                          EngineStep(ids[i], CutDeps(flat, lens, n)[i], kinds[i])])>>

NextStatus ==
    \/ \E t \in DOMAIN task : ExecuteWorkflowPanics(t)
    \/ \E t \in DOMAIN task : ExecuteWorkflowRejects(t)
    \/ \E t \in DOMAIN task : ExecuteWorkflowStores(t)
    \/ \E t \in DOMAIN task : ExecuteWorkflowStepsSorts(t)
    \/ \E t \in DOMAIN task : ExecuteWorkflowStepsFails(t)
    \/ \E t \in DOMAIN task : ExecuteStep(t)
    \/ \E t \in DOMAIN task : ExecuteWorkflowFinalizes(t)
    \/ \E workflow_id \in CancelArguments : CancelWorkflowFound(workflow_id)
    \/ \E workflow_id \in CancelArguments : CancelWorkflowNotFound(workflow_id)
    \/ \E workflow_id \in CancelArguments : GetWorkflowStatus(workflow_id)

SpecStatus == InitStatus /\ [][NextStatus]_vars

\* ----------------------------------------------------- timed specification

\* One execute_workflow call on a new engine with a step list of the smaller
\* bounds, whose processors may run for longer than the steps' timeouts, next
\* to cancel_workflow calls.
NextTimed ==
    \/ \E t \in DOMAIN task : ExecuteWorkflowPanics(t)
    \/ \E t \in DOMAIN task : ExecuteWorkflowRejects(t)
    \/ \E t \in DOMAIN task : ExecuteWorkflowStores(t)
    \/ \E t \in DOMAIN task : ExecuteWorkflowStepsSorts(t)
    \/ \E t \in DOMAIN task : ExecuteWorkflowStepsFails(t)
    \/ \E t \in DOMAIN task : ExecuteStep(t)
    \/ \E t \in DOMAIN task : ExecuteStepSlowly(t)
    \/ \E t \in DOMAIN task : ExecuteWorkflowFinalizes(t)
    \/ \E workflow_id \in CancelArguments : CancelWorkflowFound(workflow_id)
    \/ \E workflow_id \in CancelArguments : CancelWorkflowNotFound(workflow_id)

SpecTimed == InitStatus /\ [][NextTimed]_vars

\* -------------------------------------------------- scenario specification

\* Array payloads: the arrays of the bounds, and the array of scenario 1 and
\* of test_simple_workflow.
IntArrays ==
    {Arr(<<Num(1), Num(2), Num(3), Num(4), Num(5)>>)}
    \cup UNION {{Arr([i \in 1..n |-> Num(items[i])]) :
                    items \in [1..n -> (-1)..MaxItem]} : n \in 0..MaxArrayLen}

\* The parameters of conditional steps: the four conditions, one that the
\* processor does not know, no condition, and no parameters at all.
Condition(condition, threshold) ==
    Obj([condition |-> Str(condition), threshold |-> Num(threshold)])

ConditionalParameters ==
    {Condition(c, threshold) :
        c \in {"greater_than", "less_than", "equals", "not_equals", "between"},
        threshold \in (-MaxInt)..MaxInt}
    \cup {Obj([threshold |-> Num(threshold)]) : threshold \in (-MaxInt)..MaxInt}
    \cup {NoneV}

\* The one step of the workflows of the scenarios: a sum of an array, the
\* step of test_simple_workflow, or a conditional on an integer.
ScenarioStep(operation, data, parameters) ==
    WorkflowStep(IdNames[1], operation, <<>>, data, parameters, NoneV, NoneV)

\* One execute_workflow call on a new engine with a workflow of one step.
InitScenario ==
    /\ gsteps = <<>>
    /\ gvalid = NotValidated
    /\ gsort = NotSorted
    /\ EngineInit
    /\ \/ \E data \in IntArrays :
            \E parameters \in {Aggregate("sum"), Obj([operation |-> Str("sum")])} :
              task = <<idle_task(<<ScenarioStep("data_transform", data, parameters)>>)>>
       \/ \E value \in (-MaxInt)..MaxInt : \E parameters \in ConditionalParameters :
              task = <<idle_task(<<ScenarioStep("conditional", Num(value), parameters)>>)>>

NextScenario ==
    \/ \E t \in DOMAIN task : ExecuteWorkflowStores(t)
    \/ \E t \in DOMAIN task : ExecuteWorkflowStepsSorts(t)
    \/ \E t \in DOMAIN task : ExecuteStep(t)
    \/ \E t \in DOMAIN task : ExecuteWorkflowFinalizes(t)

SpecScenario == InitScenario /\ [][NextScenario]_vars

\* ------------------------------------------------------ lock specification

\* The steps of the calls on the engine at the grain of the registry's
\* Mutex: lock().await is a step of its own, enabled when the Mutex is
\* unlocked, and the guard is dropped by the step that ends its block.  The
\* positions of an execute_workflow call, next to those of idle_task:
\*   "store_wait"     the execution is created; at the first lock().await
\*   "store_locked"   holding the guard of the "Store workflow" block
\*   "update_wait"    the final status is set; at the second lock().await
\*   "update_locked"  holding the guard of the "Update stored workflow" block
\* and those of a get_workflow_status or cancel_workflow call, whose
\* workflow_id is its argument:
\*   "status_wait", "cancel_wait"        at its lock().await
\*   "status_locked", "cancel_locked"    holding the guard
\*   "status_returned", "cancel_returned"
WaitPcs == {"store_wait", "update_wait", "status_wait", "cancel_wait"}
LockedPcs == {"store_locked", "update_locked", "status_locked", "cancel_locked"}
CallPcs == {"status_wait", "cancel_wait", "status_locked", "cancel_locked",
            "status_returned", "cancel_returned"}
EndPcs == {"returned", "panicked", "status_returned", "cancel_returned"}

\* A get_workflow_status or cancel_workflow call at its lock().await.
waiting_call(operation, workflow_id) ==
    [idle_task(<<>>) EXCEPT !.pc = operation, !.workflow_id = workflow_id]

\* What get_workflow_status and cancel_workflow returned.
ReturnStatus(value) == [t |-> "status", value |-> value]
ReturnCancel(value) == [t |-> "cancel", value |-> value]

\* execute_workflow is called, validate_workflow returns Ok, and the
\* execution is created.
ExecuteWorkflowCreates(t) ==
    /\ task[t].pc = "idle"
    /\ issued < Len(UuidNames)
    /\ validate_workflow(task[t].steps).kind = "Ok"
    /\ \E now \in Now :
         /\ clock' = now
         /\ task' = [task EXCEPT
                       ![t].pc = "store_wait",
                       ![t].workflow_id = UuidNames[issued + 1],
                       ![t].execution = new_execution(UuidNames[issued + 1],
                                                      task[t].steps, now)]
    /\ issued' = issued + 1
    /\ UNCHANGED <<workflows, cancels, last_cancel, status_calls, step_processors, lock, gvars>>

\* self.workflows.lock().await returns the guard: the Mutex was unlocked.
LockAcquires(t) ==
    /\ task[t].pc \in WaitPcs
    /\ lock = 0
    /\ lock' = t
    /\ task' = [task EXCEPT ![t].pc =
                  CASE task[t].pc = "store_wait" -> "store_locked"
                    [] task[t].pc = "update_wait" -> "update_locked"
                    [] task[t].pc = "status_wait" -> "status_locked"
                    [] task[t].pc = "cancel_wait" -> "cancel_locked"]
    /\ UNCHANGED <<workflows, issued, clock, cancels, last_cancel, status_calls, step_processors, gvars>>

\* Mutant of StoreWorkflow: the guard of the block outlives it, and is held
\* while execute_workflow_steps runs.
StoreWorkflow_keeps_guard(t) ==
    /\ task[t].pc = "store_locked"
    /\ workflows' = insert(workflows, task[t].workflow_id, task[t].execution)
    /\ task' = [task EXCEPT ![t].pc = "execute"]
    /\ UNCHANGED <<issued, clock, cancels, last_cancel, status_calls, step_processors, lock, gvars>>

\* The "Store workflow" block: the insert, and the drop of the guard.
StoreWorkflow(t) ==
    /\ task[t].pc = "store_locked"
    /\ workflows' = insert(workflows, task[t].workflow_id, task[t].execution)
    /\ lock' = 0
    /\ task' = [task EXCEPT ![t].pc = "execute"]
    /\ UNCHANGED <<issued, clock, cancels, last_cancel, status_calls, step_processors, gvars>>

\* "Update final status", after execute_workflow_steps returned.
UpdateFinalStatus(t) ==
    /\ task[t].pc = "finalize"
    /\ \E now \in Now :
         /\ clock' = now
         /\ task' = [task EXCEPT ![t].pc = "update_wait",
                                 ![t].execution = finalized(@, now)]
    /\ UNCHANGED <<workflows, issued, cancels, last_cancel, status_calls, step_processors, lock, gvars>>

\* Mutant of UpdateStoredWorkflow: the record goes under the first id that
\* was handed out, whichever call that was.
UpdateStoredWorkflow_first_id(t) ==
    /\ task[t].pc = "update_locked"
    /\ workflows' = insert(workflows, UuidNames[1], task[t].execution)
    /\ lock' = 0
    /\ task' = [task EXCEPT
                  ![t].pc = "returned",
                  ![t].ret = ReturnOk(task[t].workflow_id,
                                      workflow_result(task[t].execution))]
    /\ UNCHANGED <<issued, clock, cancels, last_cancel, status_calls, step_processors, gvars>>

\* The "Update stored workflow" block, the drop of its guard, and the return
\* of the result.
UpdateStoredWorkflow(t) ==
    /\ task[t].pc = "update_locked"
    /\ workflows' = insert(workflows, task[t].workflow_id, task[t].execution)
    /\ lock' = 0
    /\ task' = [task EXCEPT
                  ![t].pc = "returned",
                  ![t].ret = ReturnOk(task[t].workflow_id,
                                      workflow_result(task[t].execution))]
    /\ UNCHANGED <<issued, clock, cancels, last_cancel, status_calls, step_processors, gvars>>

\* The body of get_workflow_status under the guard, and its return.
StatusReturns(t) ==
    /\ task[t].pc = "status_locked"
    /\ lock' = 0
    /\ task' = [task EXCEPT
                  ![t].pc = "status_returned",
                  ![t].ret = ReturnStatus(get_workflow_status(task[t].workflow_id))]
    /\ UNCHANGED <<workflows, issued, clock, cancels, last_cancel, status_calls, step_processors, gvars>>

\* The body of cancel_workflow under the guard, and its return.
CancelReturns(t) ==
    /\ task[t].pc = "cancel_locked"
    /\ lock' = 0
    /\ IF task[t].workflow_id \in DOMAIN workflows
       THEN \E now \in Now :
              /\ clock' = now
              /\ workflows' = [workflows EXCEPT
                                 ![task[t].workflow_id].status = "Cancelled",
                                 ![task[t].workflow_id].end_time = Num(now)]
              /\ task' = [task EXCEPT ![t].pc = "cancel_returned",
                                      ![t].ret = ReturnCancel("Ok")]
       ELSE /\ task' = [task EXCEPT ![t].pc = "cancel_returned",
                                    ![t].ret = ReturnCancel("NotFound")]
            /\ UNCHANGED <<workflows, clock>>
    /\ UNCHANGED <<issued, cancels, last_cancel, status_calls, step_processors, gvars>>

\* The step kinds of the two execute_workflow calls: the steps of the first
\* count an array and succeed, the step of the second sums a number and fails.
CountKind == CHOOSE kind \in StepKinds : kind.parameters = Aggregate("count")
SumKind == CHOOSE kind \in StepKinds : kind.parameters = Aggregate("sum")

\* Two execute_workflow calls on a new engine, the first with a step list of
\* the smaller bounds and the second with a list of one step of an id of its
\* own, next to one get_workflow_status or cancel_workflow call that is at its
\* lock().await from the start, and so takes the guard at any moment of the
\* two runs.
InitLock ==
    /\ gsteps = <<>>
    /\ gvalid = NotValidated
    /\ gsort = NotSorted
    /\ EngineInit
    /\ \E n \in 0..MaxStatusSteps : \E ids \in IdSeqs(n) :
         \E lens \in DepLengths(n, MaxStatusEdges) :
           \E flat \in [1..SumTo(lens, n) -> IdsUpTo(MaxStatusSteps) \cup {GhostId}] :
             \E operation \in {"status_wait", "cancel_wait"} :
               \E workflow_id \in {UnknownWorkflowId, UuidNames[1]} :
                 task = <<idle_task([i \in 1..n |->
                             EngineStep(ids[i], CutDeps(flat, lens, n)[i], CountKind)]),
                          idle_task(<<EngineStep(IdNames[MaxStatusSteps + 1], <<>>, SumKind)>>),
                          waiting_call(operation, workflow_id)>>

NextLock ==
    \/ \E t \in DOMAIN task : ExecuteWorkflowPanics(t)
    \/ \E t \in DOMAIN task : ExecuteWorkflowRejects(t)
    \/ \E t \in DOMAIN task : ExecuteWorkflowCreates(t)
    \/ \E t \in DOMAIN task : LockAcquires(t)
    \/ \E t \in DOMAIN task : StoreWorkflow(t)
    \/ \E t \in DOMAIN task : ExecuteWorkflowStepsSorts(t)
    \/ \E t \in DOMAIN task : ExecuteWorkflowStepsFails(t)
    \/ \E t \in DOMAIN task : ExecuteStep(t)
    \/ \E t \in DOMAIN task : UpdateFinalStatus(t)
    \/ \E t \in DOMAIN task : UpdateStoredWorkflow(t)
    \/ \E t \in DOMAIN task : StatusReturns(t)
    \/ \E t \in DOMAIN task : CancelReturns(t)

SpecLock == InitLock /\ [][NextLock]_vars

\* The initial states of the fair specification: the first execute_workflow
\* call has a step list of the smallest bounds, and the second submits its
\* one step once or more, under one id.
InitLockFair ==
    /\ gsteps = <<>>
    /\ gvalid = NotValidated
    /\ gsort = NotSorted
    /\ EngineInit
    /\ \E n \in 0..MaxFairSteps : \E ids \in IdSeqs(n) :
         \E lens \in DepLengths(n, MaxFairEdges) :
           \E flat \in [1..SumTo(lens, n) -> IdsUpTo(MaxFairSteps) \cup {GhostId}] :
             \E m \in 1..MaxFairRepeats :
               \E operation \in {"status_wait", "cancel_wait"} :
                 \E workflow_id \in {UnknownWorkflowId, UuidNames[1]} :
                   task = <<idle_task([i \in 1..n |->
                               EngineStep(ids[i], CutDeps(flat, lens, n)[i], CountKind)]),
                            idle_task([i \in 1..m |->
                               EngineStep(IdNames[MaxFairSteps + 1], <<>>, SumKind)]),
                            waiting_call(operation, workflow_id)>>

\* The lock specification with the scheduling of the runtime: as long as
\* some call can take a step, one does.  The executor runs every call that
\* can go on and the Mutex hands its guard out in the order of the requests;
\* both imply this condition, which is all the properties below rely on.
SpecLockFair == InitLockFair /\ [][NextLock]_vars /\ WF_vars(NextLock)

\* ------------------------------------------------------------ http handler

\* The response of the /execute-workflow handler of main.rs for what the
\* engine's execute_workflow returned: 200 with a WorkflowResponse whose
\* status is "completed" and whose results is the serialized WorkflowResult
\* for Ok, 500 with a body whose status is "error" for Err.  A call that has
\* not returned, or has panicked, has no response.  The elapsed time and the
\* timestamp of the bodies are left out.
NoResponse == [code |-> 0, body |-> Null]

\* Mutant of execute_workflow_handler: a workflow whose final status is
\* Failed is answered with the error response.
execute_workflow_handler_reports_failed(ret) ==
    CASE ret.t = "ok" /\ ret.result.status = "Completed" ->
           [code |-> 200,
            body |-> [status |-> "completed", workflow_id |-> ret.workflow_id,
                      results |-> ret.result]]
      [] ret.t = "ok" /\ ret.result.status # "Completed" ->
           [code |-> 500, body |-> [status |-> "error", error |-> ret.result.errors]]
      [] ret.t = "err" ->
           [code |-> 500, body |-> [status |-> "error", error |-> ret.error]]
      [] OTHER -> NoResponse

execute_workflow_handler(ret) ==
    CASE ret.t = "ok" ->
           [code |-> 200,
            body |-> [status |-> "completed", workflow_id |-> ret.workflow_id,
                      results |-> ret.result]]
      [] ret.t = "err" ->
           [code |-> 500, body |-> [status |-> "error", error |-> ret.error]]
      [] OTHER -> NoResponse

\* ------------------------------------------------------ graph vocabulary

\* The dependency relation of a step list: <<s, d>> when a step with id s
\* declares the dependency d.
DepRel(steps) ==
    UNION {{<<steps[i].id, steps[i].dependencies[j]>> :
                j \in 1..Len(steps[i].dependencies)} : i \in 1..Len(steps)}

RECURSIVE Closure(_)
\* The transitive closure of a finite relation.
Closure(R) ==
    LET step == R \cup UNION {{<<p[1], q[2]>> : q \in {r \in R : r[1] = p[2]}} :
                              p \in R}
    IN IF step = R THEN R ELSE Closure(step)

\* Some id depends, directly or through other ids, on itself.
HasCycleRel(steps) == \E p \in Closure(DepRel(steps)) : p[1] = p[2]

UniqueIds(steps) ==
    \A i, j \in 1..Len(steps) : steps[i].id = steps[j].id => i = j

\* Every declared dependency is the id of a step of the list.
Resolvable(steps) == \A p \in DepRel(steps) : p[2] \in step_ids(steps)

\* The positions of id in a sequence of ids.
Positions(order, id) == {k \in 1..Len(order) : order[k] = id}

\* order holds each id of steps exactly once, and nothing else.
IsPermutationOfIds(order, steps) ==
    /\ Len(order) = Cardinality(step_ids(steps))
    /\ \A id \in step_ids(steps) : Cardinality(Positions(order, id)) = 1

\* Every step comes later in order than each of its dependencies.
RespectsDeps(order, steps) ==
    \A p \in DepRel(steps) :
        \A k \in Positions(order, p[1]) :
            \E m \in Positions(order, p[2]) : m < k

\* ------------------------------------------------------------- claims

\* C1: for a step list with unique ids whose dependency relation is acyclic
\* and fully resolvable, topological_sort returns Ok with a permutation of
\* the step ids in which every step comes after each of its dependencies.
C1_SortOrdersAcyclicGraph ==
    (/\ gsort # NotSorted
     /\ UniqueIds(gsteps) /\ Resolvable(gsteps) /\ ~HasCycleRel(gsteps))
    => /\ gsort.kind = "Ok"
       /\ IsPermutationOfIds(gsort.order, gsteps)
       /\ RespectsDeps(gsort.order, gsteps)

\* C1 witness: a sorted list of three steps in which a step is declared
\* before a step it depends on, and some step has two different dependencies.
C1_Witness ==
    /\ gsort.kind = "Ok" /\ Len(gsteps) = 3 /\ UniqueIds(gsteps)
    /\ \E i, j \in 1..3 : i < j /\ <<gsteps[i].id, gsteps[j].id>> \in DepRel(gsteps)
    /\ \E i \in 1..3 : Cardinality({gsteps[i].dependencies[k] :
                                       k \in 1..Len(gsteps[i].dependencies)}) = 2

\* C2 (as claimed): for a step list whose dependency relation has a cycle,
\* validate_workflow fails with the cycle error and topological_sort fails
\* with the cycle error.
C2_CycleRejectedByBoth ==
    (gvalid # NotValidated /\ gsort # NotSorted /\ HasCycleRel(gsteps))
    => /\ gvalid.kind = "CircularDependency"
       /\ gsort.kind = "CircularDependency"

\* C3 (as claimed): for a non-empty step list in which a step declares a
\* dependency that is the id of no step, validate_workflow returns the
\* unknown-dependency error naming that step and that dependency; it never
\* panics.
C3_UnknownDependencyReported ==
    (gvalid # NotValidated /\ Len(gsteps) > 0 /\ ~Resolvable(gsteps))
    => /\ gvalid.kind = "NonExistentDependency"
       /\ <<gvalid.step, gvalid.dep>> \in DepRel(gsteps)
       /\ gvalid.dep \notin step_ids(gsteps)

\* -------------------------------------------------------- run vocabulary

\* The step list is one the validator is meant to accept: not empty, every
\* dependency the id of a step, no cycle.
ValidGraph(steps) ==
    Len(steps) > 0 /\ Resolvable(steps) /\ ~HasCycleRel(steps)

\* The execute_step calls made so far for the step id.
Attempts(t, id) == {k \in DOMAIN task[t].log : task[t].log[k].step.id = id}

\* The indices of the dependencies of a log entry that had a result when
\* execute_step was called.
PresentDeps(entry) ==
    {j \in 1..Len(entry.step.dependencies) :
        entry.step.dependencies[j] \in DOMAIN entry.previous_results}

\* items is the sequence of the results of the present dependencies, in the
\* declared order: an order-preserving one-to-one match of its positions with
\* PresentDeps.
IsDependencyOutputs(items, entry) ==
    /\ Len(items) = Cardinality(PresentDeps(entry))
    /\ \A i \in 1..Len(items) :
         \E j \in PresentDeps(entry) :
            /\ Cardinality({m \in PresentDeps(entry) : m < j}) = i - 1
            /\ items[i] = entry.previous_results[entry.step.dependencies[j]]

TerminalStatuses == {"Completed", "Failed", "Cancelled"}

\* C4 (as claimed): for a step list that passes validation, the run attempts
\* every step exactly once, and when the run ends every step id is a key of
\* exactly one of the results map and the errors map.
C4_EveryStepAttemptedOnce ==
    \A t \in DOMAIN task :
        task[t].ret.t = "ok" =>
            LET e == task[t].execution
            IN /\ \A id \in step_ids(e.steps) : Cardinality(Attempts(t, id)) = 1
               /\ DOMAIN e.results \cap DOMAIN e.errors = {}
               /\ DOMAIN e.results \cup DOMAIN e.errors = step_ids(e.steps)

\* C5: the status of the WorkflowResult that execute_workflow returns is
\* Completed exactly when the errors map is empty at the end of the run and
\* Failed exactly when it is not; it is never Pending, Running or Cancelled.
C5_StatusIffErrorsEmpty ==
    \A t \in DOMAIN task :
        task[t].ret.t = "ok" =>
            LET status == task[t].ret.result.status
                errors == task[t].execution.errors
            IN /\ status = "Completed" <=> DOMAIN errors = {}
               /\ status = "Failed" <=> DOMAIN errors # {}
               /\ status \notin {"Pending", "Running", "Cancelled"}
               /\ task[t].ret.result.errors = errors

\* C5 witness: a result is returned for a run in which one step succeeded and
\* another failed, and the recorded status was Cancelled meanwhile.
C5_Witness ==
    \E t \in DOMAIN task :
        /\ task[t].ret.t = "ok"
        /\ task[t].ret.result.status = "Failed"
        /\ DOMAIN task[t].ret.result.results # {}
        /\ last_cancel.ret = "Ok" /\ last_cancel.before.status = "Running"

\* C6: each execute_step call comes after the attempt of every dependency of
\* its step (the dependency's id is by then a key of results or of errors),
\* and a failed dependency does not keep the dependent from being attempted:
\* once the loop is over, every step of the schedule has been attempted.
C6_DependenciesAttemptedFirst ==
    \A t \in DOMAIN task :
        /\ \A k \in DOMAIN task[t].log :
             \A j \in 1..Len(task[t].log[k].step.dependencies) :
                task[t].log[k].step.dependencies[j] \in task[t].log[k].attempted_before
        /\ task[t].pc \in {"finalize", "returned"} =>
             \A k \in DOMAIN task[t].execution_order :
                Attempts(t, task[t].execution_order[k]) # {}

\* C6 witness: a step declared before its dependency reaches its processor
\* after that dependency was attempted and failed.
C6_Witness ==
    \E t \in DOMAIN task : \E k \in DOMAIN task[t].log :
        LET entry == task[t].log[k]
        IN /\ entry.invoked
           /\ \E j \in 1..Len(entry.step.dependencies) :
                /\ entry.step.dependencies[j] \in entry.attempted_before
                /\ entry.step.dependencies[j] \notin DOMAIN entry.previous_results
                /\ find_step(task[t].steps, entry.step.id)
                     < find_step(task[t].steps, entry.step.dependencies[j])

\* C7: the processor gets the step's own payload when the step declares no
\* dependency; otherwise it gets the array of the outputs of exactly the
\* dependencies that have a result, in the declared order: a failed
\* dependency is left out, and the step's payload is not used.
C7_ProcessorInput ==
    \A t \in DOMAIN task : \A k \in DOMAIN task[t].log :
        LET entry == task[t].log[k]
        IN entry.invoked =>
             IF entry.step.dependencies = <<>>
             THEN entry.input = entry.step.data
             ELSE /\ entry.input.t = "arr"
                  /\ IsDependencyOutputs(entry.input.items, entry)

\* C7 witness: a step with two dependencies reaches its processor when one of
\* them has failed and the other has a result.
C7_Witness ==
    \E t \in DOMAIN task : \E k \in DOMAIN task[t].log :
        LET entry == task[t].log[k]
        IN /\ entry.invoked
           /\ Len(entry.step.dependencies) = 2
           /\ entry.step.dependencies[1] \notin DOMAIN entry.previous_results
           /\ entry.step.dependencies[2] \in DOMAIN entry.previous_results
           /\ entry.input = Arr(<<entry.previous_results[entry.step.dependencies[2]]>>)

\* C8 (as claimed): when the step list is empty, has a dependency on a
\* missing step or has a cycle, execute_workflow returns an error and no
\* processor is invoked.
C8_InvalidGraphReturnsError ==
    \A t \in DOMAIN task :
        ~ValidGraph(task[t].steps) =>
            /\ task[t].log = <<>>
            /\ task[t].pc \in {"returned", "panicked"} => task[t].ret.t = "err"

\* C9 (as claimed): after execute_workflow returned a validation error, the
\* workflow is recorded with status Failed, one entry in errors and no
\* result.
C9_RejectedWorkflowRecordedFailed ==
    \A t \in DOMAIN task :
        task[t].ret.t = "err" =>
            /\ task[t].workflow_id \in DOMAIN workflows
            /\ workflows[task[t].workflow_id].status = "Failed"
            /\ Cardinality(DOMAIN workflows[task[t].workflow_id].errors) = 1
            /\ DOMAIN workflows[task[t].workflow_id].results = {}

\* C10 (as claimed): cancel_workflow on a workflow whose recorded status is
\* Completed, Failed or Cancelled is rejected as already terminal and leaves
\* the recorded status and end time as they were.
C10_CancelTerminalRejected ==
    (last_cancel.before # NoneV /\ last_cancel.before.status \in TerminalStatuses)
    => /\ last_cancel.ret = "AlreadyTerminal"
       /\ last_cancel.after.status = last_cancel.before.status
       /\ last_cancel.after.end_time = last_cancel.before.end_time

\* C11 (as claimed): once cancel_workflow has set the recorded status of a
\* workflow to Cancelled, no later step changes it: the record stays
\* Cancelled while execute_workflow runs its remaining steps and after it
\* has finalized.
C11_CancelledStaysCancelled ==
    [][\A w \in DOMAIN workflows :
          workflows[w].status = "Cancelled" => workflows'[w].status = "Cancelled"]_vars

\* C12: cancel_workflow on a workflow whose recorded status is Running
\* returns Ok and leaves the record Cancelled with an end time; it does not
\* stop the run: the loop still attempts every step of its schedule, and
\* execute_workflow returns its result.
C12_CancelRunning ==
    (last_cancel.before # NoneV /\ last_cancel.before.status = "Running")
    => /\ last_cancel.ret = "Ok"
       /\ last_cancel.after.status = "Cancelled"
       /\ last_cancel.after.end_time # NoneV
       /\ \A t \in DOMAIN task :
            task[t].workflow_id = last_cancel.workflow_id =>
               /\ task[t].pc \in {"execute", "run", "finalize", "returned"}
               /\ task[t].pc \in {"finalize", "returned"} =>
                    \A k \in DOMAIN task[t].execution_order :
                       Attempts(t, task[t].execution_order[k]) # {}
               /\ task[t].pc = "returned" => task[t].ret.t = "ok"

\* C12 witness: a run of three steps was cancelled between the store of its
\* Running record and its finalization, and has returned with every step
\* attempted.
C12_Witness ==
    \E t \in DOMAIN task :
        /\ task[t].pc = "returned"
        /\ Len(task[t].log) = 3
        /\ last_cancel.workflow_id = task[t].workflow_id
        /\ last_cancel.ret = "Ok"
        /\ last_cancel.before.status = "Running"
        /\ last_cancel.after.end_time.n > task[t].execution.start_time
        /\ last_cancel.after.end_time.n < task[t].execution.end_time.n

\* C13: a cancel_workflow call whose argument is not a key of the registry
\* returns the not-found error and leaves the registry as it was.
C13_CancelUnknownNotFound ==
    [][(cancels' # cancels /\ last_cancel'.workflow_id \notin DOMAIN workflows)
       => /\ last_cancel'.ret = "NotFound"
          /\ workflows' = workflows]_vars

\* C13 witness: the not-found error was returned while the registry held a
\* record under another id.
C13_Witness ==
    /\ last_cancel.ret = "NotFound"
    /\ last_cancel.workflow_id \notin DOMAIN workflows
    /\ DOMAIN workflows # {}

\* C14 (as claimed): two get_workflow_status calls for the same workflow, the
\* first of which returned a Completed record, with no execute_workflow call
\* between them, return the same status, results, errors and end time,
\* whatever cancel_workflow calls come between them.
C14_StatusReadsRepeat ==
    \A i \in DOMAIN status_calls : \A j \in DOMAIN status_calls :
        (/\ i < j
         /\ status_calls[i].workflow_id = status_calls[j].workflow_id
         /\ status_calls[i].issued = status_calls[j].issued
         /\ status_calls[i].ret # NoneV
         /\ status_calls[i].ret.status = "Completed")
        => /\ status_calls[j].ret # NoneV
           /\ status_calls[j].ret.status = status_calls[i].ret.status
           /\ status_calls[j].ret.results = status_calls[i].ret.results
           /\ status_calls[j].ret.errors = status_calls[i].ret.errors
           /\ status_calls[j].ret.end_time = status_calls[i].ret.end_time

\* C15: get_workflow_status returns None exactly when its argument is not a
\* key of the registry, returns the record stored under the key otherwise,
\* and leaves the registry as it was.
C15_StatusLookup ==
    [][status_calls' # status_calls =>
         LET call == status_calls'[Len(status_calls')]
         IN /\ call.ret = NoneV <=> call.workflow_id \notin DOMAIN workflows
            /\ call.workflow_id \in DOMAIN workflows =>
                 call.ret = workflows[call.workflow_id]
            /\ workflows' = workflows]_vars

\* C15 witness: one call returned None and another returned a record with a
\* result in it, which the registry still holds.
C15_Witness ==
    \E i \in DOMAIN status_calls : \E j \in DOMAIN status_calls :
        /\ status_calls[i].ret = NoneV
        /\ status_calls[j].ret # NoneV
        /\ DOMAIN status_calls[j].ret.results # {}
        /\ workflows[status_calls[j].workflow_id] = status_calls[j].ret

\* C16: every record that get_workflow_status returned is consistent:
\* Completed with no error and an end time, Failed with an error and an end
\* time, Cancelled with an end time, or Running with no end time.
C16_SnapshotConsistent ==
    \A i \in DOMAIN status_calls :
        LET e == status_calls[i].ret
        IN e # NoneV =>
             /\ e.status \in {"Running", "Completed", "Failed", "Cancelled"}
             /\ e.status = "Completed" => (DOMAIN e.errors = {} /\ e.end_time # NoneV)
             /\ e.status = "Failed" => (DOMAIN e.errors # {} /\ e.end_time # NoneV)
             /\ e.status = "Cancelled" => e.end_time # NoneV
             /\ e.status = "Running" => e.end_time = NoneV

\* C16 witness: a call during the run returned the Cancelled record, and a
\* call after the run returned the Failed record written over it.
C16_Witness ==
    \E i \in DOMAIN status_calls : \E j \in DOMAIN status_calls :
        /\ i < j
        /\ status_calls[i].workflow_id = status_calls[j].workflow_id
        /\ status_calls[i].ret # NoneV /\ status_calls[j].ret # NoneV
        /\ status_calls[i].ret.status = "Cancelled"
        /\ status_calls[j].ret.status = "Failed"

\* C17 (as claimed): once execute_workflow has returned (workflow_id, result)
\* for a valid step list, the registry holds under workflow_id a record with
\* the status, results and errors of the result; and no step takes a key out
\* of the registry.
C17_RecordMatchesResult ==
    [][/\ \A t \in DOMAIN task :
            (task'[t].ret.t = "ok" /\ ValidGraph(task'[t].steps)) =>
                /\ task'[t].ret.workflow_id \in DOMAIN workflows'
                /\ LET record == workflows'[task'[t].ret.workflow_id]
                       result == task'[t].ret.result
                   IN /\ record.status = result.status
                      /\ record.results = result.results
                      /\ record.errors = result.errors
       /\ DOMAIN workflows \subseteq DOMAIN workflows']_vars

\* The execute_step call of a log entry reached the processor, which
\* returned an error.
HandlerFailed(entry) ==
    entry.invoked /\ ~execute_step(entry.step, entry.previous_results).ok

\* C18 (as claimed): when the loop is over, a step with a retry budget r > 0
\* whose processor failed on every call has had r + 1 calls, all with the
\* same input and parameters; and a step one of whose calls succeeded is a
\* key of results and not of errors.
C18_FailedStepRetried ==
    \A t \in DOMAIN task :
        task[t].pc \in {"finalize", "returned"} =>
            \A id \in {task[t].execution_order[k] : k \in DOMAIN task[t].execution_order} :
                LET calls == {k \in Attempts(t, id) : task[t].log[k].invoked}
                    step == task[t].execution.steps[find_step(task[t].execution.steps, id)]
                IN /\ (/\ step.retry_count # NoneV
                       /\ step.retry_count.n > 0
                       /\ calls # {}
                       /\ \A k \in calls : HandlerFailed(task[t].log[k]))
                      => /\ Cardinality(calls) = step.retry_count.n + 1
                         /\ \A k \in calls : \A m \in calls :
                              task[t].log[k].input = task[t].log[m].input
                   /\ (\E k \in calls : ~HandlerFailed(task[t].log[k]))
                      => (id \in DOMAIN task[t].execution.results
                          /\ id \notin DOMAIN task[t].execution.errors)

\* C19 (as claimed): a step with a timeout_ms whose processor ran for longer
\* than that is a key of the errors map and not of the results map, and the
\* loop still attempts every step of its schedule.
C19_TimeoutRecorded ==
    \A t \in DOMAIN task :
        /\ \A k \in DOMAIN task[t].log :
             LET entry == task[t].log[k]
             IN (/\ entry.invoked
                 /\ entry.step.timeout_ms # NoneV
                 /\ entry.elapsed_ms > entry.step.timeout_ms.n)
                => /\ entry.step.id \in DOMAIN task[t].execution.errors
                   /\ entry.step.id \notin DOMAIN task[t].execution.results
        /\ task[t].pc \in {"finalize", "returned"} =>
             \A k \in DOMAIN task[t].execution_order :
                Attempts(t, task[t].execution_order[k]) # {}

\* The words and marks of the two format strings an error message of an
\* unregistered operation is made of; any other piece is one token.
tokens(piece) ==
    CASE piece = "Step execution failed: " -> <<"Step", "execution", "failed", ":">>
      [] piece = "Unknown step operation: " -> <<"Unknown", "step", "operation", ":">>
      [] OTHER -> <<piece>>

RECURSIVE message_tokens(_)
\* The tokens of an error message, piece after piece.
message_tokens(message) ==
    IF message = <<>> THEN <<>>
    ELSE tokens(Head(message)) \o message_tokens(Tail(message))

\* The token in lower case.
lower(token) ==
    CASE token = "Step" -> "step"
      [] token = "Unknown" -> "unknown"
      [] OTHER -> token

\* The phrase is a run of consecutive tokens of the text.
Contains(text, phrase) ==
    \E k \in 0..(Len(text) - Len(phrase)) :
        \A m \in 1..Len(phrase) : text[k + m] = phrase[m]

\* Step number i of a returned run has an operation that is not registered.
Unregistered(t, i) ==
    /\ task[t].ret.t = "ok"
    /\ i \in 1..Len(task[t].steps)
    /\ task[t].steps[i].operation \notin step_processors

\* Step number j is an independent sibling whose processor succeeds: it has
\* a registered operation that succeeds on its own payload, and no
\* dependencies.
SucceedingSibling(t, j) ==
    /\ task[t].steps[j].operation \in step_processors
    /\ task[t].steps[j].dependencies = <<>>
    /\ processor(task[t].steps[j].operation, task[t].steps[j].data,
                 task[t].steps[j].parameters).ok

\* What the claim says of the maps and the status for the unregistered step
\* number i: an entry in errors, none in results, every succeeding sibling in
\* results with its output, and the status Failed.
UnregisteredOutcome(t, i) ==
    LET e == task[t].execution
    IN /\ task[t].steps[i].id \in DOMAIN e.errors
       /\ task[t].steps[i].id \notin DOMAIN e.results
       /\ \A j \in 1..Len(task[t].steps) :
            SucceedingSibling(t, j) =>
               /\ task[t].steps[j].id \in DOMAIN e.results
               /\ e.results[task[t].steps[j].id] =
                    processor(task[t].steps[j].operation, task[t].steps[j].data,
                              task[t].steps[j].parameters).value
       /\ task[t].ret.result.status = "Failed"
       /\ task[t].ret.result.errors = e.errors
       /\ task[t].ret.result.results = e.results

\* C20 (as claimed): a step whose operation is not registered gets an entry
\* in errors whose message contains "unknown operation", in whatever case,
\* and no entry in results; every independent sibling whose processor
\* succeeds is in results; the final status is Failed.
C20_UnknownOperationMessage ==
    \A t \in DOMAIN task : \A i \in 1..Len(task[t].steps) :
        Unregistered(t, i) =>
            /\ UnregisteredOutcome(t, i)
            /\ LET text == message_tokens(task[t].execution.errors[task[t].steps[i].id])
               IN Contains([k \in 1..Len(text) |-> lower(text[k])],
                           <<"unknown", "operation">>)

\* C21: execute_workflow returns an error only when validate_workflow
\* returned one; for a step list that validate_workflow accepts it does not
\* panic, and it returns Ok with the workflow id and a result that carries
\* the errors of the failed steps, however many of them failed.
C21_ErrorOnlyFromValidation ==
    \A t \in DOMAIN task :
        /\ task[t].ret.t = "err" =>
             /\ validate_workflow(task[t].steps).kind \notin {"Ok", "Panic"}
             /\ task[t].ret.error = validate_workflow(task[t].steps)
        /\ validate_workflow(task[t].steps).kind = "Ok" =>
             /\ task[t].pc # "panicked"
             /\ task[t].pc = "returned" =>
                  /\ task[t].ret.t = "ok"
                  /\ task[t].ret.workflow_id = task[t].workflow_id
                  /\ task[t].ret.workflow_id # ""
                  /\ task[t].ret.result.errors = task[t].execution.errors

\* C21 witness: execute_workflow returned Ok for a run of three steps of
\* which every one failed, one for an unregistered operation and one in its
\* processor.
C21_Witness ==
    \E t \in DOMAIN task :
        /\ task[t].ret.t = "ok"
        /\ Len(task[t].steps) = 3
        /\ Cardinality(DOMAIN task[t].ret.result.errors) = 3
        /\ \E k \in DOMAIN task[t].log : ~task[t].log[k].invoked
        /\ \E k \in DOMAIN task[t].log : HandlerFailed(task[t].log[k])

\* The ids of degree 0 in the order of their declaration in the step list.
DeclaredReady(steps) ==
    CHOOSE s \in IterOrders(ready_ids(steps)) :
        \A i, j \in DOMAIN s :
            i < j => find_step(steps, s[i]) < find_step(steps, s[j])

\* C23 (as claimed): the order topological_sort returns is a function of the
\* step list, the same at every call: the one Kahn's algorithm gives when the
\* steps that are ready together enter the queue in the order of their
\* declaration.
C23_SchedulerDeterministic ==
    gsort.kind = "Ok" => gsort = topological_sort(gsteps, DeclaredReady(gsteps))

\* C24 (as claimed): a record enters the registry with status Pending, and a
\* record is Running only if validate_workflow accepted its step list.
C24_CreatedPending ==
    [][/\ \A w \in DOMAIN workflows' \ DOMAIN workflows :
            workflows'[w].status = "Pending"
       /\ \A w \in DOMAIN workflows' :
            workflows'[w].status = "Running" =>
                validate_workflow(workflows'[w].steps).kind = "Ok"]_vars

\* The run of a workflow of one step without dependencies has returned.
OneStepRun(t) ==
    /\ task[t].ret.t = "ok"
    /\ Len(task[t].steps) = 1
    /\ task[t].steps[1].dependencies = <<>>

\* The value is an array of integers.
IsIntArray(v) ==
    v.t = "arr" /\ \A i \in DOMAIN v.items : v.items[i].t = "num"

\* C25: the run of one data_transform step without dependencies, with an
\* array of integers as payload and the parameters {operation: "aggregate",
\* function: "sum"}, returns a result with results[step id] = {sum: the sum
\* of the array}, no error and the status Completed.
C25_SumScenario ==
    \A t \in DOMAIN task :
        (/\ OneStepRun(t)
         /\ task[t].steps[1].operation = "data_transform"
         /\ IsIntArray(task[t].steps[1].data)
         /\ task[t].steps[1].parameters = Aggregate("sum"))
        => LET items == task[t].steps[1].data.items
               result == task[t].ret.result
           IN /\ DOMAIN result.results = {task[t].steps[1].id}
              /\ result.results[task[t].steps[1].id] =
                   Obj([sum |-> Num(SumTo([i \in DOMAIN items |-> items[i].n],
                                          Len(items)))])
              /\ DOMAIN result.errors = {}
              /\ result.status = "Completed"

\* C25 witness: the sum of [1, 2, 3, 4, 5] came back as {sum: 15}.
C25_Witness ==
    \E t \in DOMAIN task :
        /\ OneStepRun(t)
        /\ task[t].steps[1].data = Arr(<<Num(1), Num(2), Num(3), Num(4), Num(5)>>)
        /\ task[t].steps[1].parameters = Aggregate("sum")
        /\ task[t].ret.result.results[task[t].steps[1].id] = Obj([sum |-> Num(15)])

\* C26 (as claimed): the run of test_simple_workflow, one data_transform step
\* without dependencies with an array of numbers as payload and the
\* parameters {operation: "sum"}, returns a workflow id that is not empty and
\* a result whose status field is "completed".
C26_SimpleWorkflowCompleted ==
    \A t \in DOMAIN task :
        (/\ OneStepRun(t)
         /\ task[t].steps[1].operation = "data_transform"
         /\ IsIntArray(task[t].steps[1].data)
         /\ task[t].steps[1].parameters = Obj([operation |-> Str("sum")]))
        => /\ task[t].ret.workflow_id # ""
           /\ task[t].ret.result.status = "completed"

\* C27: the conditional processor, on an integer payload v and an integer
\* threshold t, gives result = (v > t) for greater_than, (v < t) for
\* less_than, (v = t) for equals and (v # t) for not_equals; with no
\* condition or one it does not know the step is recorded in errors.
C27_Conditional ==
    \A t \in DOMAIN task :
        (OneStepRun(t) /\ task[t].steps[1].operation = "conditional")
        => LET step == task[t].steps[1]
               v == step.data.n
               condition == as_str(get(step.parameters, "condition"))
               threshold == get(step.parameters, "threshold").n
               result == task[t].ret.result
               expected(b) == /\ step.id \in DOMAIN result.results
                              /\ step.id \notin DOMAIN result.errors
                              /\ get(result.results[step.id], "result") = Bool(b)
           IN CASE condition = Str("greater_than") -> expected(v > threshold)
                [] condition = Str("less_than") -> expected(v < threshold)
                [] condition = Str("equals") -> expected(v = threshold)
                [] condition = Str("not_equals") -> expected(v # threshold)
                [] OTHER -> /\ step.id \in DOMAIN result.errors
                            /\ step.id \notin DOMAIN result.results
                            /\ result.status = "Failed"

\* C27 witness: the payload 5 with greater_than and the threshold 3 came
\* back with result true.
C27_Witness ==
    \E t \in DOMAIN task :
        /\ OneStepRun(t)
        /\ task[t].steps[1].operation = "conditional"
        /\ task[t].steps[1].data = Num(5)
        /\ task[t].steps[1].parameters = Condition("greater_than", 3)
        /\ get(task[t].ret.result.results[task[t].steps[1].id], "result") = Bool(TRUE)

\* C28 (as claimed): in the result execute_workflow returns, step_count is
\* the number of submitted steps, successful_steps the size of the results
\* map, failed_steps the size of the errors map, and successful_steps +
\* failed_steps = step_count.
C28_ResultCounts ==
    \A t \in DOMAIN task :
        task[t].ret.t = "ok" =>
            LET result == task[t].ret.result
            IN /\ result.step_count = Len(task[t].steps)
               /\ result.successful_steps = Cardinality(DOMAIN result.results)
               /\ result.failed_steps = Cardinality(DOMAIN result.errors)
               /\ result.successful_steps + result.failed_steps = result.step_count

\* C29: get_available_operations returns, on a new engine and in every state
\* that execute_workflow, get_workflow_status and cancel_workflow calls lead
\* to, the same set, which is not empty: the four names data_transform,
\* file_operation, conditional and delay.
C29_OperationsFixed ==
    /\ get_available_operations # {}
    /\ get_available_operations
         = {"data_transform", "file_operation", "conditional", "delay"}

\* C29 witness: a run with a step of an unregistered operation has returned,
\* and a cancel_workflow call and a get_workflow_status call have found its
\* record.
C29_Witness ==
    \E t \in DOMAIN task :
        /\ task[t].ret.t = "ok"
        /\ \E k \in DOMAIN task[t].log : ~task[t].log[k].invoked
        /\ last_cancel.ret = "Ok"
        /\ \E i \in DOMAIN status_calls : status_calls[i].ret # NoneV

\* C30: for a step list that is not empty, with distinct ids and every
\* dependency the id of a step, validate_workflow returns the cycle error
\* exactly when the dependency relation has a cycle, and Ok when it has
\* none: also when a step reaches another along several paths, and when a
\* step is declared before its dependencies.
C30_NoFalsePositive ==
    (/\ gvalid # NotValidated
     /\ Len(gsteps) > 0
     /\ UniqueIds(gsteps)
     /\ Resolvable(gsteps))
    => /\ gvalid.kind = "CircularDependency" <=> HasCycleRel(gsteps)
       /\ ~HasCycleRel(gsteps) => gvalid.kind = "Ok"

\* C30 witness: validate_workflow accepted a list whose first step depends
\* on the two steps declared after it, one of which depends on the other.
C30_Witness ==
    /\ gvalid.kind = "Ok"
    /\ Len(gsteps) = 3
    /\ UniqueIds(gsteps)
    /\ Len(gsteps[1].dependencies) = 2
    /\ gsteps[1].dependencies[1] # gsteps[1].dependencies[2]
    /\ gsteps[2].dependencies = <<gsteps[3].id>>
    /\ gsteps[3].dependencies = <<>>

\* C31 (as claimed): for every step list that validate_workflow accepts, a
\* repeated step id or a repeated dependency entry included,
\* topological_sort returns Ok, so the length check of its last lines never
\* fires after a validation that passed.
C31_ValidatorSchedulerAgree ==
    (gvalid.kind = "Ok" /\ gsort # NotSorted) => gsort.kind = "Ok"

\* C32 (as claimed): whenever execute_workflow returns a result whose status
\* is Completed, every submitted step was executed and is a key of results,
\* and successful_steps is step_count, also when execute_workflow_steps
\* returned an error.
C32_CompletedMeansAllRun ==
    \A t \in DOMAIN task :
        (task[t].ret.t = "ok" /\ task[t].ret.result.status = "Completed") =>
            /\ \A i \in 1..Len(task[t].steps) :
                 /\ \E k \in DOMAIN task[t].log : task[t].log[k].step = task[t].steps[i]
                 /\ task[t].steps[i].id \in DOMAIN task[t].ret.result.results
            /\ task[t].ret.result.successful_steps = task[t].ret.result.step_count

\* C33 (as claimed): the value of the errors map for a failed step names the
\* step id and the operation of the step, next to the error of the
\* processor or of the lookup.
C33_ErrorNamesStepAndOperation ==
    \A t \in DOMAIN task :
        task[t].ret.t = "ok" =>
            \A k \in DOMAIN task[t].log :
                LET step == task[t].log[k].step
                    r == execute_step(step, task[t].log[k].previous_results)
                    text == message_tokens(task[t].ret.result.errors[step.id])
                IN ~r.ok =>
                     /\ step.id \in DOMAIN task[t].ret.result.errors
                     /\ Contains(text, <<step.id>>)
                     /\ Contains(text, <<step.operation>>)
                     /\ Contains(text, message_tokens(r.error))

\* The execute_workflow call is between its two inserts.
BetweenInserts(t) == task[t].pc \in {"execute", "run", "finalize"}

\* The record shows nothing of a run: no results, no errors, no current step.
NoProgress(execution) ==
    /\ execution.results = EmptyMap
    /\ execution.errors = EmptyMap
    /\ execution.current_step = NoneV

\* C34: between the first insert of a workflow's record (Running, no results,
\* no errors, no current step) and the last insert of the same
\* execute_workflow call, no step other than a cancel_workflow of that id
\* changes the record in the registry; get_workflow_status in between shows
\* no results, no errors and no current step, and any record it ever
\* returned shows either that or the maps of the returned result.
C34_ProgressIsPrivate ==
    /\ [][\A t \in DOMAIN task :
            BetweenInserts(t) =>
               \/ workflows'[task[t].workflow_id] = workflows[task[t].workflow_id]
               \/ /\ cancels' = cancels + 1
                  /\ last_cancel'.workflow_id = task[t].workflow_id
                  /\ workflows'[task[t].workflow_id] =
                       [workflows[task[t].workflow_id] EXCEPT
                           !.status = "Cancelled",
                           !.end_time = workflows'[task[t].workflow_id].end_time]
               \/ /\ task[t].pc = "finalize"
                  /\ task'[t].pc = "returned"]_vars
    /\ [](\A t \in DOMAIN task :
            /\ BetweenInserts(t) =>
                 /\ NoProgress(get_workflow_status(task[t].workflow_id))
                 /\ cancels = 0 =>
                      get_workflow_status(task[t].workflow_id) =
                         new_execution(task[t].workflow_id, task[t].steps,
                                       task[t].execution.start_time)
            /\ \A c \in DOMAIN status_calls :
                 (status_calls[c].workflow_id = task[t].workflow_id
                    /\ status_calls[c].ret # NoneV) =>
                     \/ NoProgress(status_calls[c].ret)
                     \/ /\ task[t].ret.t = "ok"
                        /\ status_calls[c].ret.results = task[t].ret.result.results
                        /\ status_calls[c].ret.errors = task[t].ret.result.errors)

\* An execute_workflow call whose private copy holds a result and an error,
\* while get_workflow_status returned the record of the registry, which
\* holds none.
C34_Witness ==
    \E t \in DOMAIN task :
        /\ task[t].pc \in {"run", "finalize"}
        /\ DOMAIN task[t].execution.results # {}
        /\ DOMAIN task[t].execution.errors # {}
        /\ \E c \in DOMAIN status_calls :
             /\ status_calls[c].ret = workflows[task[t].workflow_id]
             /\ NoProgress(status_calls[c].ret)
             /\ status_calls[c].ret.status = "Running"

\* ------------------------------------------------------- lock vocabulary

\* Call number t is a get_workflow_status or cancel_workflow call.
IsCall(t) == task[t].pc \in CallPcs

\* Call number t is inside execute_workflow_steps.
InStepLoop(t) == task[t].pc = "run"

\* C35: the guard of the registry's Mutex is not alive while a step handler
\* runs, and no call asks for it while holding it; under any interleaving
\* some call can take a step as long as one has not ended (no deadlock); and
\* under fair scheduling of the calls and of the Mutex, a get_workflow_status
\* or cancel_workflow call that waits for the guard while execute_workflow
\* calls run their steps gets it and returns.
C35_LockNeverBlocks ==
    /\ [](\A t \in DOMAIN task :
            /\ lock = t <=> task[t].pc \in LockedPcs
            /\ (task[t].pc \in WaitPcs \/ InStepLoop(t)) => lock # t)
    /\ [][\A t \in DOMAIN task : task'[t].log # task[t].log => lock # t]_vars
    /\ []((\E t \in DOMAIN task : task[t].pc \notin EndPcs) => ENABLED NextLock)
    /\ <>(\A t \in DOMAIN task : IsCall(t) => task[t].pc \in EndPcs)

\* The get_workflow_status or cancel_workflow call holds the guard while both
\* execute_workflow calls are in their step loops.
C35_Witness ==
    \E t \in DOMAIN task :
        /\ task[t].pc \in {"status_locked", "cancel_locked"}
        /\ lock = t
        /\ \E u, v \in DOMAIN task :
             /\ u # v
             /\ InStepLoop(u) /\ InStepLoop(v)

\* C36 (as claimed): every execute_workflow call returns, whatever its finite
\* step list, when the handlers return; and the record of a call whose list
\* passes validation comes to hold a status other than Running.
C36_EverySubmitReturns ==
    /\ <>(\A t \in DOMAIN task : ~IsCall(t) => task[t].pc = "returned")
    /\ <>(\A t \in DOMAIN task :
            (~IsCall(t) /\ validate_workflow(task[t].steps).kind = "Ok") =>
                /\ task[t].workflow_id \in DOMAIN workflows
                /\ workflows[task[t].workflow_id].status # "Running")

\* C37: every step is a step of one call, and changes no record of the
\* registry but the one under the workflow id of that call (its own id for
\* an execute_workflow call, its argument for a cancel_workflow call); and the
\* record under the id of an execute_workflow call carries that id, the steps
\* of that call, and results and errors whose keys are ids of those steps.
C37_WorkflowsIsolated ==
    /\ [][\E t \in DOMAIN task :
            /\ task'[t] # task[t]
            /\ \A u \in DOMAIN task \ {t} : task'[u] = task[u]
            /\ \A w \in DOMAIN workflows :
                 w # task'[t].workflow_id =>
                    w \in DOMAIN workflows' /\ workflows'[w] = workflows[w]]_vars
    /\ [](\A t \in DOMAIN task :
            (~IsCall(t) /\ task[t].workflow_id \in DOMAIN workflows) =>
                LET execution == workflows[task[t].workflow_id]
                IN /\ execution.id = task[t].workflow_id
                   /\ execution.steps = task[t].steps
                   /\ DOMAIN execution.results \cup DOMAIN execution.errors
                         \subseteq step_ids(task[t].steps))

\* Two execute_workflow calls that ran side by side have returned, one with
\* a result and one with an error, and the cancel_workflow call cancelled the
\* record of one of them and left the other's as its call stored it.
C37_Witness ==
    \E t, u, c \in DOMAIN task :
        /\ task[t].pc = "returned" /\ task[u].pc = "returned"
        /\ task[t].ret.t = "ok" /\ task[u].ret.t = "ok"
        /\ DOMAIN workflows[task[t].workflow_id].results # {}
        /\ DOMAIN workflows[task[u].workflow_id].errors # {}
        /\ task[c].ret = ReturnCancel("Ok")
        /\ task[c].workflow_id = task[t].workflow_id
        /\ workflows[task[t].workflow_id].status = "Cancelled"
        /\ workflows[task[u].workflow_id] = task[u].execution
        /\ task[u].execution.start_time < task[t].execution.end_time.n
        /\ task[t].execution.start_time < task[u].execution.end_time.n

\* The response is an error response: a status code of the 4xx or 5xx range
\* or a body whose status is "error".
IsErrorResponse(response) ==
    response # NoResponse /\ (response.code >= 400 \/ response.body.status = "error")

\* C38: the /execute-workflow endpoint answers with an error response exactly
\* when the engine's execute_workflow returned an error, which is the error
\* of validate_workflow; whenever it returned Ok the response is a 200 whose
\* top-level status is "completed" and whose results carry the workflow's own
\* status, be it Completed or Failed.
C38_ErrorResponseIffSubmitError ==
    \A t \in DOMAIN task :
        LET response == execute_workflow_handler(task[t].ret)
        IN /\ IsErrorResponse(response) <=> task[t].ret.t = "err"
           /\ task[t].ret.t = "err" =>
                /\ task[t].ret.error = validate_workflow(task[t].steps)
                /\ task[t].ret.error.kind \in
                     {"EmptyWorkflow", "CircularDependency", "NonExistentDependency"}
           /\ task[t].ret.t = "ok" =>
                /\ response.code = 200
                /\ response.body.status = "completed"
                /\ response.body.workflow_id = task[t].workflow_id
                /\ response.body.results = workflow_result(task[t].execution)
                /\ response.body.results.status \in {"Completed", "Failed"}
           /\ task[t].pc # "returned" => response = NoResponse

\* execute_workflow returned Ok for a workflow in which a step failed: the
\* response says "completed" and its results say Failed.
C38_Witness ==
    \E t \in DOMAIN task :
        /\ task[t].ret.t = "ok"
        /\ task[t].ret.result.status = "Failed"
        /\ task[t].ret.result.failed_steps > 0
        /\ execute_workflow_handler(task[t].ret).body.status = "completed"

====
